---------------------------- MODULE Spec2Model ----------------------------
(***************************************************************************)
(* State-machine model of webdriver::Script (cpp/iedriver/Script.cpp):     *)
(* the argument list, the synchronous Execute, and the asynchronous       *)
(* coordinator (ExecuteAsync / BeginAsyncExecution) together with the      *)
(* named bootstrap event and the worker it spawns.                         *)
(*                                                                         *)
(* Every driver instance ("caller") owns one Script object.  Spec runs one *)
(* caller through every operation, with another driver instance's handle   *)
(* on the named event as its environment; SpecRace runs several callers    *)
(* concurrently through the asynchronous entry points.                     *)
(***************************************************************************)
EXTENDS Integers, Sequences, FiniteSets, TLC

\* ------------------------------------------------------------------ bounds
NumCallers == 2
MaxArgs == 2
MaxOverflow == 1
MaxCalls == 2
MaxPolls == 2
RaceArgCount == 1
MaxCommands == 2

\* ------------------------------------------------------- program constants
RetryCount == 50
PollIntervalMs == 10

Callers == 1..NumCallers
Main == CHOOSE c \in Callers : \A d \in Callers : c <= d
Timeouts == {0, PollIntervalMs \div 2, PollIntervalMs * MaxPolls}

\* ------------------------------------------------------------------ values
\* A VARIANT: its type tag and its payload.
Variant(vt, val) == [vt |-> vt, val |-> val]
EmptyVariant == Variant("VT_EMPTY", "")
NullVariant == Variant("VT_NULL", "")
WindowVariant == Variant("VT_DISPATCH", "window")
\* The values the callers of AddArgument pass.
ArgValues ==
  { Variant("VT_DISPATCH", "elem"), Variant("VT_I4", "7"), Variant("VT_BSTR", "s") }
\* What the host's Invoke can hand back as the script's value.
HostResults == { Variant("VT_I4", "2"), EmptyVariant }

\* No function: the property before any script was bound to it, a local
\* that was not assigned.
NoFunction == 0

\* No command is being handled: the locals of ExecuteInternal before it
\* runs, what its two lookups returned, the calls of Execute it made, what
\* was set on its response, and the responses of the commands before it.
NoHandler ==
  [ pc |-> "none", has_id |-> FALSE, element_id |-> "", status_code |-> "none",
    browser_status |-> "none", element_status |-> "none", doc |-> "NULL", script |-> << >>, executions |-> << >>,
    responses |-> << >>, served |-> << >> ]

\* The elements of the page.
Elements == { "e1", "e2" }

\* The page's elements as the repository and the DOM hold them.
ElementState(managed, attached, document) ==
  [ managed |-> managed, attached |-> attached, document |-> document ]
LiveElement == ElementState(TRUE, TRUE, "doc")
ElementStates ==
  { LiveElement, ElementState(FALSE, TRUE, "doc"),
    ElementState(TRUE, FALSE, "doc"), ElementState(TRUE, TRUE, "other") }

\* Error descriptions stored in result_ by the asynchronous entry points.
DescEventExists == Variant("VT_BSTR", "event already exists")
DescCreateEventFailed == Variant("VT_BSTR", "CreateEvent failed")
DescEventElsewhere == Variant("VT_BSTR", "event created in another instance")
DescThreadFailed == Variant("VT_BSTR", "could not create thread")
DescDocMarshal == Variant("VT_BSTR", "could not marshal IHTMLDocument2")
DescArgMarshal == Variant("VT_BSTR", "could not marshal IDispatch")

VARIABLES
  \* the Script object of each caller
  script_engine_host_, argument_count_, argument_array_, current_arg_index_,
  result_,
  \* memory outside the argument vector overwritten by an out-of-range store
  heap_corrupt,
  \* the running call of each caller: position and locals
  pc, entry, timeout, retry_counter, event_handle, thread_handle,
  event_wait_result, executor_handle, async_executor_handle,
  is_execution_finished, return_code, arg_index,
  \* the worker each caller spawned, and the named event
  worker, event_signaled, env_handle,
  \* history of the current call: the array handed to Invoke, the messages
  \* sent to the executor handle, the OpenEvent probes made and those that
  \* found the event, a failed marshal, result_ at the time of the call;
  \* and the calls made on the object
  invoke_args, sent, probes, probes_held, hr_failed, result_before, calls,
  \* what the host did in the last Execute
  host_outcome,
  \* the page's elements as the element repository and the DOM hold them;
  \* the JSON value last given to AddArguments, what that ingestion did, and
  \* the argument vector and fill position before it
  dom, ingest_input, ingest_log, args_before,
  \* the property __webdriver_script_fn of the document; the function each
  \* stepwise Execute retrieved from it, and the one it invoked
  webdriver_script_fn, temp_function, invoked_fn,
  \* the running GetElementTextCommandHandler::ExecuteInternal
  handler

scriptVars ==
  << script_engine_host_, argument_count_, argument_array_,
     current_arg_index_, result_, heap_corrupt >>
callVars ==
  << pc, entry, timeout, retry_counter, event_handle, thread_handle,
     event_wait_result, executor_handle, async_executor_handle,
     is_execution_finished, return_code, arg_index >>
envVars == << worker, event_signaled, env_handle >>
histVars == << invoke_args, sent, probes, probes_held, hr_failed,
               result_before, calls >>
jsonVars == << dom, ingest_input, ingest_log, args_before >>
bindVars == << webdriver_script_fn, temp_function, invoked_fn >>
vars ==
  << scriptVars, callVars, envVars, histVars, host_outcome, jsonVars,
     bindVars, handler >>

\* ------------------------------------------------------------ construction
NoWorker ==
  [ state |-> "none", doc |-> FALSE, args |-> << >>, posted |-> FALSE,
    is_complete |-> FALSE, status |-> "WD_SUCCESS", detached |-> FALSE ]

\* Script::Initialize: the vector is resized to the declared count.
Initialize(count) == [ i \in 1..count |-> EmptyVariant ]

InitCall ==
  /\ pc = [c \in Callers |-> "idle"]
  /\ entry = [c \in Callers |-> "none"]
  /\ timeout = [c \in Callers |-> 0]
  /\ retry_counter = [c \in Callers |-> 0]
  /\ event_handle = [c \in Callers |-> "NULL"]
  /\ thread_handle = [c \in Callers |-> "NULL"]
  /\ event_wait_result = [c \in Callers |-> "none"]
  /\ executor_handle = [c \in Callers |-> "none"]
  /\ async_executor_handle = [c \in Callers |-> "unwritten"]
  /\ is_execution_finished = [c \in Callers |-> FALSE]
  /\ return_code = [c \in Callers |-> "none"]
  /\ arg_index = [c \in Callers |-> 0]
  /\ worker = [c \in Callers |-> NoWorker]
  /\ event_signaled = FALSE
  /\ env_handle = "NULL"
  /\ invoke_args = [c \in Callers |-> << >>]
  /\ sent = [c \in Callers |-> << >>]
  /\ probes = [c \in Callers |-> 0]
  /\ probes_held = [c \in Callers |-> 0]
  /\ hr_failed = [c \in Callers |-> FALSE]
  /\ result_before = [c \in Callers |-> EmptyVariant]
  /\ calls = [c \in Callers |-> 0]
  /\ host_outcome = [c \in Callers |-> "none"]
  /\ dom = [e \in Elements |-> LiveElement]
  /\ ingest_input = << >>
  /\ ingest_log = << >>
  /\ args_before = [args |-> << >>, idx |-> 0]
  /\ webdriver_script_fn = NoFunction
  /\ temp_function = [c \in Callers |-> NoFunction]
  /\ invoked_fn = [c \in Callers |-> NoFunction]
  /\ handler = NoHandler

InitScript(hosts, counts) ==
  /\ script_engine_host_ \in [Callers -> hosts]
  /\ argument_count_ \in [Callers -> counts]
  /\ argument_array_ = [c \in Callers |-> Initialize(argument_count_[c])]
  /\ current_arg_index_ = [c \in Callers |-> 0]
  /\ result_ = [c \in Callers |-> EmptyVariant]
  /\ heap_corrupt = [c \in Callers |-> FALSE]

\* One driver instance under test; the others never call.
Init ==
  /\ InitScript({"doc", "NULL"}, 0..MaxArgs)
  /\ \A c \in Callers \ {Main} :
       script_engine_host_[c] = "doc" /\ argument_count_[c] = 0
  /\ InitCall


\* ------------------------------------------------------------- Script ops
\* Script::AddArgument(VARIANT): store at current_arg_index_, then advance.
\* vector::operator[] does not check the index: a store at or past size() is
\* undefined.  It either lands in memory outside the vector (the vector
\* keeps its size and contents) or faults.
AddArgument(c) ==
  /\ pc[c] = "idle"
  /\ current_arg_index_[c] < Len(argument_array_[c]) + MaxOverflow
  /\ \E v \in ArgValues :
       IF current_arg_index_[c] < Len(argument_array_[c])
         THEN /\ argument_array_' =
                   [argument_array_ EXCEPT ![c][current_arg_index_[c] + 1] = v]
              /\ current_arg_index_' = [current_arg_index_ EXCEPT ![c] = @ + 1]
              /\ UNCHANGED << heap_corrupt, pc >>
         ELSE \/ /\ heap_corrupt' = [heap_corrupt EXCEPT ![c] = TRUE]
                 /\ current_arg_index_' =
                      [current_arg_index_ EXCEPT ![c] = @ + 1]
                 /\ UNCHANGED << argument_array_, pc >>
              \/ /\ pc' = [pc EXCEPT ![c] = "crashed"]
                 /\ UNCHANGED << argument_array_, current_arg_index_,
                                 heap_corrupt >>
  /\ UNCHANGED << script_engine_host_, argument_count_, result_ >>
  /\ UNCHANGED << entry, timeout, retry_counter, event_handle, thread_handle,
                  event_wait_result, executor_handle, async_executor_handle,
                  is_execution_finished, return_code, arg_index >>
  /\ UNCHANGED << envVars, histVars >>
  /\ UNCHANGED << host_outcome, jsonVars, bindVars, handler >>

\* Variant: the arguments copied in add order, the window appended.
InvokeArgumentsInOrder(args) == Append(args, WindowVariant)

\* Script::Execute, lines 227-234: the array handed to IDispatch::Invoke is
\* one longer than the argument list; argument index goes to size-1-index
\* and the window object takes the last place.
InvokeArguments(args) ==
  [ k \in 1..(Len(args) + 1) |->
      IF k = Len(args) + 1 THEN WindowVariant ELSE args[Len(args) + 1 - k] ]

\* What the host does with one Execute: each step of lines 189-251 can fail.
HostOutcomes ==
  { [kind |-> k, value |-> EmptyVariant] :
      k \in { "create_failed", "not_function", "no_call_member", "no_window",
              "invoke_threw", "invoke_threw_nodesc", "invoke_failed" } }
  \cup { [kind |-> "ok", value |-> r] : r \in HostResults }

\* Whether Invoke is reached.
ReachesInvoke(o) ==
  o.kind \in { "invoke_threw", "invoke_threw_nodesc", "invoke_failed", "ok" }

\* Variant: a missing host is reported like any other failure.
ExecuteStatusOneFailure(host, o) ==
  IF host # "NULL" /\ o.kind \in { "not_function", "ok" }
    THEN "WD_SUCCESS" ELSE "EUNEXPECTEDJSERROR"

\* The status Execute returns for a host outcome.
ExecuteStatus(host, o) ==
  IF host = "NULL" THEN "ENOSUCHDOCUMENT"
  ELSE IF o.kind \in { "not_function", "ok" } THEN "WD_SUCCESS"
  ELSE "EUNEXPECTEDJSERROR"

\* result_ after Execute: copied from the local result only on the paths
\* that reach line 269.
ExecuteResult(host, o, old) ==
  IF host = "NULL" \/ ~ReachesInvoke(o) THEN old
  ELSE IF o.kind = "ok" THEN o.value
  ELSE IF o.kind = "invoke_threw" THEN Variant("VT_BSTR", "exception description")
  ELSE IF o.kind = "invoke_threw_nodesc" THEN Variant("VT_BSTR", "EUNEXPECTEDJSERROR")
  ELSE Variant("VT_BSTR", "")

\* The return of a call: the caller observes the status at pc "returned".
Return(c, code) ==
  /\ pc' = [pc EXCEPT ![c] = "returned"]
  /\ return_code' = [return_code EXCEPT ![c] = code]

\* Script::Execute.
Execute(c) ==
  /\ pc[c] = "idle"
  /\ \E o \in HostOutcomes :
       /\ Return(c, ExecuteStatus(script_engine_host_[c], o))
       /\ result_' = [result_ EXCEPT ![c] =
                        ExecuteResult(script_engine_host_[c], o, @)]
       /\ invoke_args' = [invoke_args EXCEPT ![c] =
                            IF script_engine_host_[c] # "NULL" /\ ReachesInvoke(o)
                              THEN InvokeArguments(argument_array_[c])
                              ELSE << >>]
       /\ host_outcome' = [host_outcome EXCEPT ![c] =
                             IF script_engine_host_[c] = "NULL"
                               THEN "none" ELSE o.kind]
  /\ entry' = [entry EXCEPT ![c] = "Execute"]
  /\ result_before' = [result_before EXCEPT ![c] = result_[c]]
  /\ calls' = [calls EXCEPT ![c] = @ + 1]
  /\ UNCHANGED << script_engine_host_, argument_count_, argument_array_,
                  current_arg_index_, heap_corrupt >>
  /\ UNCHANGED << timeout, retry_counter, event_handle, thread_handle,
                  event_wait_result, executor_handle, async_executor_handle,
                  is_execution_finished, arg_index >>
  /\ UNCHANGED << envVars, sent, probes, probes_held, hr_failed >>
  /\ UNCHANGED << jsonVars, bindVars, handler >>

\* After a synchronous Execute the caller goes on to use the same Script
\* object for another call.
Resume(c) ==
  /\ pc[c] = "returned"
  /\ entry[c] \in {"Execute", "AddArguments"}
  /\ calls[c] < MaxCalls
  /\ pc' = [pc EXCEPT ![c] = "idle"]
  /\ entry' = [entry EXCEPT ![c] = "none"]
  /\ return_code' = [return_code EXCEPT ![c] = "none"]
  /\ invoke_args' = [invoke_args EXCEPT ![c] = << >>]
  /\ UNCHANGED << timeout, retry_counter, event_handle, thread_handle,
                  event_wait_result, executor_handle, async_executor_handle,
                  is_execution_finished, arg_index >>
  /\ UNCHANGED << scriptVars, envVars, sent, probes, probes_held, hr_failed,
                  result_before, calls >>
  /\ host_outcome' = [host_outcome EXCEPT ![c] = "none"]
  /\ ingest_input' = << >>
  /\ ingest_log' = << >>
  /\ args_before' = [args |-> << >>, idx |-> 0]
  /\ temp_function' = [temp_function EXCEPT ![c] = NoFunction]
  /\ invoked_fn' = [invoked_fn EXCEPT ![c] = NoFunction]
  /\ UNCHANGED << dom, webdriver_script_fn, handler >>

\* ---------------------------------------------------- the named event
\* The kernel keeps the named event alive while any handle to it is open.
EventExists ==
  env_handle # "NULL" \/ \E c \in Callers : event_handle[c] # "NULL"

OthersHold(c) ==
  env_handle # "NULL" \/ \E d \in Callers \ {c} : event_handle[d] # "NULL"

\* ::OpenEvent(SYNCHRONIZE, FALSE, ASYNC_SCRIPT_EVENT_NAME)
OpenEventResult(exists) == IF exists THEN "opened" ELSE "NULL"

\* Variant: ERROR_ALREADY_EXISTS is not tested.
CreateEventResultIgnoringExisting(exists, os_failure) ==
  IF os_failure THEN "NULL" ELSE "created"

\* ::CreateEvent(NULL, TRUE, FALSE, ASYNC_SCRIPT_EVENT_NAME) and the test of
\* line 310: NULL on an OS failure, a handle to the existing event when
\* GetLastError() is ERROR_ALREADY_EXISTS, else the newly created event.
CreateEventResult(exists, os_failure) ==
  IF os_failure THEN "NULL" ELSE IF exists THEN "existing" ELSE "created"

\* ::CloseHandle(event_handle): the event (and its signaled state) goes away
\* with its last handle.
CloseHandle(c) ==
  /\ event_handle' = [event_handle EXCEPT ![c] = "NULL"]
  /\ event_signaled' = IF OthersHold(c) THEN event_signaled ELSE FALSE

\* ------------------------------------------------ the worker (executor)
\* thread_context.hwnd as the coordinator reads it at line 354: the worker's
\* window once the worker has created it, an uninitialized value before.
ThreadContextHwnd(w) ==
  IF w.state \in {"window", "ready"} THEN "hwnd" ELSE "garbage"

\* The worker's window procedure.
WorkerReceive(w, m) ==
  CASE m.msg = "WD_ASYNC_SCRIPT_SET_DOCUMENT" -> [w EXCEPT !.doc = TRUE]
    [] m.msg = "WD_ASYNC_SCRIPT_SET_ARGUMENT" ->
         [w EXCEPT !.args = Append(@, [wparam |-> m.wparam, lparam |-> m.lparam])]
    [] m.msg = "WD_ASYNC_SCRIPT_EXECUTE" -> [w EXCEPT !.posted = TRUE]
    [] m.msg = "WD_ASYNC_SCRIPT_DETACH_LISTENTER" -> [w EXCEPT !.detached = TRUE]
    [] OTHER -> w

\* The statuses a script can end with on the worker.
WorkerStatuses == { "WD_SUCCESS", "EUNEXPECTEDJSERROR" }

\* What SendMessage returns for the two queries.  A handle read before the
\* worker wrote it is an uninitialized value: the message reaches nobody of
\* this call, and the reply is whatever that value stands for (0 when it is
\* no window at all).
IsCompleteReply(handle, w) ==
  IF handle = "hwnd" THEN { w.is_complete } ELSE BOOLEAN
GetResultReply(handle, w) ==
  IF handle = "hwnd" THEN { w.status } ELSE WorkerStatuses

\* SendMessage returns once the receiving thread has handled the message,
\* that is once the worker runs its message loop, or at once when the handle
\* is no window.
Deliverable(c) ==
  executor_handle[c] = "garbage" \/ worker[c].state = "ready"

Message(msg, wparam, lparam) == [msg |-> msg, wparam |-> wparam, lparam |-> lparam]
NoParam == [kind |-> "null", val |-> ""]

\* ::SendMessage / ::PostMessage to executor_handle.
Send(c, m) ==
  /\ sent' = [sent EXCEPT ![c] = Append(@, m)]
  /\ worker' = IF executor_handle[c] = "hwnd"
                 THEN [worker EXCEPT ![c] = WorkerReceive(@, m)]
                 ELSE worker

\* AsyncScriptExecutor::ThreadProc: create the window, publish its handle in
\* the thread context, signal the named event, run the message loop.
WorkerCreateWindow(c) ==
  /\ worker[c].state = "started"
  /\ worker' = [worker EXCEPT ![c].state = "window"]
  /\ UNCHANGED << scriptVars, callVars, event_signaled, env_handle, histVars >>
  /\ UNCHANGED << host_outcome, jsonVars, bindVars, handler >>

WorkerSignalReady(c) ==
  /\ worker[c].state = "window"
  /\ worker' = [worker EXCEPT ![c].state = "ready"]
  /\ event_signaled' = (EventExists \/ event_signaled)
  /\ UNCHANGED << scriptVars, callVars, env_handle, histVars >>
  /\ UNCHANGED << host_outcome, jsonVars, bindVars, handler >>

\* The posted script runs to its end on the worker, with some status.
WorkerComplete(c) ==
  /\ worker[c].state = "ready"
  /\ worker[c].posted
  /\ ~worker[c].is_complete
  /\ \E st \in WorkerStatuses :
       worker' = [worker EXCEPT ![c].is_complete = TRUE, ![c].status = st]
  /\ UNCHANGED << scriptVars, callVars, event_signaled, env_handle, histVars >>
  /\ UNCHANGED << host_outcome, jsonVars, bindVars, handler >>

\* Another driver instance's handle on the named event.
EnvAcquire ==
  /\ env_handle = "NULL"
  /\ env_handle' = "held"
  /\ event_signaled' = (EventExists /\ event_signaled)
  /\ UNCHANGED << scriptVars, callVars, worker, histVars >>
  /\ UNCHANGED << host_outcome, jsonVars, bindVars, handler >>

EnvRelease ==
  /\ env_handle = "held"
  /\ env_handle' = "NULL"
  /\ event_signaled' =
       ((\E c \in Callers : event_handle[c] # "NULL") /\ event_signaled)
  /\ UNCHANGED << scriptVars, callVars, worker, histVars >>
  /\ UNCHANGED << host_outcome, jsonVars, bindVars, handler >>

\* ------------------------------- ExecuteAsync / BeginAsyncExecution
scriptFixed ==
  << script_engine_host_, argument_count_, argument_array_,
     current_arg_index_, heap_corrupt >>

\* The failure returns: the description goes to result_, the status is
\* EUNEXPECTEDJSERROR.
Fail(c, description) ==
  /\ result_' = [result_ EXCEPT ![c] = description]
  /\ Return(c, "EUNEXPECTEDJSERROR")

\* Lines 274-289 and 435-450: the locals, and the first OpenEvent probe.
Enter(c, e, t) ==
  /\ pc[c] = "idle"
  /\ pc' = [pc EXCEPT ![c] = "probe_test"]
  /\ entry' = [entry EXCEPT ![c] = e]
  /\ timeout' = [timeout EXCEPT ![c] = t]
  /\ retry_counter' = [retry_counter EXCEPT ![c] = RetryCount]
  /\ event_handle' = [event_handle EXCEPT ![c] = OpenEventResult(EventExists)]
  /\ thread_handle' = [thread_handle EXCEPT ![c] = "NULL"]
  /\ event_wait_result' = [event_wait_result EXCEPT ![c] = "none"]
  /\ executor_handle' = [executor_handle EXCEPT ![c] = "none"]
  /\ async_executor_handle' = [async_executor_handle EXCEPT ![c] = "unwritten"]
  /\ is_execution_finished' = [is_execution_finished EXCEPT ![c] = FALSE]
  /\ return_code' = [return_code EXCEPT ![c] = "none"]
  /\ arg_index' = [arg_index EXCEPT ![c] = 0]
  /\ worker' = [worker EXCEPT ![c] = NoWorker]
  /\ sent' = [sent EXCEPT ![c] = << >>]
  /\ probes' = [probes EXCEPT ![c] = 1]
  /\ probes_held' = [probes_held EXCEPT ![c] = IF EventExists THEN 1 ELSE 0]
  /\ hr_failed' = [hr_failed EXCEPT ![c] = FALSE]
  /\ result_before' = [result_before EXCEPT ![c] = result_[c]]
  /\ calls' = [calls EXCEPT ![c] = @ + 1]
  /\ invoke_args' = [invoke_args EXCEPT ![c] = << >>]
  /\ UNCHANGED << scriptVars, event_signaled, env_handle >>
  /\ host_outcome' = [host_outcome EXCEPT ![c] = "none"]
  /\ UNCHANGED << jsonVars, bindVars, handler >>

ExecuteAsync(c) == \E t \in Timeouts : Enter(c, "ExecuteAsync", t)

BeginAsyncExecution(c) == Enter(c, "BeginAsyncExecution", 0)

\* Variant: the counter is tested before its decrement (retry_counter-- > 0).
KeepProbingOneMore(handle, counter) == handle # "NULL" /\ counter > 0

\* The loop condition of lines 290 and 451, on the counter before its
\* decrement.
KeepProbing(handle, counter) == handle # "NULL" /\ counter - 1 > 0

\* Lines 290-292: the event exists and retries are left: close the probe
\* handle and sleep.
ProbeRetry(c) ==
  /\ pc[c] = "probe_test"
  /\ KeepProbing(event_handle[c], retry_counter[c])
  /\ retry_counter' = [retry_counter EXCEPT ![c] = @ - 1]
  /\ CloseHandle(c)
  /\ pc' = [pc EXCEPT ![c] = "probe_sleep"]
  /\ UNCHANGED << entry, timeout, thread_handle, event_wait_result,
                  executor_handle, async_executor_handle,
                  is_execution_finished, return_code, arg_index >>
  /\ UNCHANGED << scriptVars, worker, env_handle, histVars >>
  /\ UNCHANGED << host_outcome, jsonVars, bindVars, handler >>

\* Line 293: after the sleep, probe again.
ProbeAgain(c) ==
  /\ pc[c] = "probe_sleep"
  /\ event_handle' = [event_handle EXCEPT ![c] = OpenEventResult(EventExists)]
  /\ probes' = [probes EXCEPT ![c] = @ + 1]
  /\ probes_held' = [probes_held EXCEPT ![c] = IF EventExists THEN @ + 1 ELSE @]
  /\ pc' = [pc EXCEPT ![c] = "probe_test"]
  /\ UNCHANGED << entry, timeout, retry_counter, thread_handle,
                  event_wait_result, executor_handle, async_executor_handle,
                  is_execution_finished, return_code, arg_index >>
  /\ UNCHANGED << scriptVars, envVars, invoke_args, sent, hr_failed,
                  result_before, calls >>
  /\ UNCHANGED << host_outcome, jsonVars, bindVars, handler >>

\* Lines 297-306: the event still exists after the last probe.
ProbeGiveUp(c) ==
  /\ pc[c] = "probe_test"
  /\ event_handle[c] # "NULL"
  /\ ~KeepProbing(event_handle[c], retry_counter[c])
  /\ retry_counter' = [retry_counter EXCEPT ![c] = @ - 1]
  /\ CloseHandle(c)
  /\ Fail(c, DescEventExists)
  /\ UNCHANGED << entry, timeout, thread_handle, event_wait_result,
                  executor_handle, async_executor_handle,
                  is_execution_finished, arg_index >>
  /\ UNCHANGED << scriptFixed, worker, env_handle, histVars >>
  /\ UNCHANGED << host_outcome, jsonVars, bindVars, handler >>

\* Lines 309-324: the probe found no event: create it.  The retry counter is
\* dead from here to line 408, which assigns it again, and the probes are
\* counted per acquisition loop: both are cleared.
CreateEvent(c) ==
  /\ pc[c] = "probe_test"
  /\ event_handle[c] = "NULL"
  /\ retry_counter' = [retry_counter EXCEPT ![c] = 0]
  /\ probes' = [probes EXCEPT ![c] = 0]
  /\ probes_held' = [probes_held EXCEPT ![c] = 0]
  /\ \E os_failure \in BOOLEAN :
       LET h == CreateEventResult(EventExists, os_failure) IN
         /\ event_handle' = [event_handle EXCEPT ![c] = h]
         /\ event_signaled' = IF h = "created" THEN FALSE ELSE event_signaled
         /\ IF h = "NULL"
              THEN Fail(c, DescCreateEventFailed)
              ELSE /\ pc' = [pc EXCEPT ![c] =
                               IF h = "created" THEN "spawn" ELSE "create_exists"]
                   /\ UNCHANGED << result_, return_code >>
  /\ UNCHANGED << entry, timeout, thread_handle,
                  event_wait_result, executor_handle, async_executor_handle,
                  is_execution_finished, arg_index >>
  /\ UNCHANGED << scriptFixed, worker, env_handle, invoke_args, sent,
                  hr_failed, result_before, calls >>
  /\ UNCHANGED << host_outcome, jsonVars, bindVars, handler >>

\* Lines 315-323: ERROR_ALREADY_EXISTS: close the handle and fail.
CreateEventExists(c) ==
  /\ pc[c] = "create_exists"
  /\ CloseHandle(c)
  /\ Fail(c, DescEventElsewhere)
  /\ UNCHANGED << entry, timeout, retry_counter, thread_handle,
                  event_wait_result, executor_handle, async_executor_handle,
                  is_execution_finished, arg_index >>
  /\ UNCHANGED << scriptFixed, worker, env_handle, histVars >>
  /\ UNCHANGED << host_outcome, jsonVars, bindVars, handler >>

\* Lines 330-335: _beginthreadex starts the worker, or fails.
BeginThread(c) ==
  /\ pc[c] = "spawn"
  /\ \E started \in BOOLEAN :
       /\ thread_handle' = [thread_handle EXCEPT ![c] =
                              IF started THEN "thread" ELSE "NULL"]
       /\ worker' = [worker EXCEPT ![c].state =
                       IF started THEN "started" ELSE "none"]
  /\ pc' = [pc EXCEPT ![c] = "wait"]
  /\ UNCHANGED << entry, timeout, retry_counter, event_handle,
                  event_wait_result, executor_handle, async_executor_handle,
                  is_execution_finished, return_code, arg_index >>
  /\ UNCHANGED << scriptVars, event_signaled, env_handle, histVars >>
  /\ UNCHANGED << host_outcome, jsonVars, bindVars, handler >>

\* Line 338: the wait ends when the event is signaled, or after 5 seconds.
WaitForSingleObject(c) ==
  /\ pc[c] = "wait"
  /\ event_wait_result' = [event_wait_result EXCEPT ![c] =
                             IF event_signaled THEN "WAIT_OBJECT_0"
                                               ELSE "WAIT_TIMEOUT"]
  /\ pc' = [pc EXCEPT ![c] = "close_event"]
  /\ UNCHANGED << entry, timeout, retry_counter, event_handle, thread_handle,
                  executor_handle, async_executor_handle,
                  is_execution_finished, return_code, arg_index >>
  /\ UNCHANGED << scriptVars, envVars, histVars >>
  /\ UNCHANGED << host_outcome, jsonVars, bindVars, handler >>

\* Variant: the event is closed only when the wait was signaled.
ReleaseAfterWaitIfSignaled(c) ==
  IF event_wait_result[c] = "WAIT_OBJECT_0"
    THEN CloseHandle(c)
    ELSE UNCHANGED << event_handle, event_signaled >>

\* Line 342 (503): the event handle is closed whatever the wait returned.
ReleaseAfterWait(c) == CloseHandle(c)

\* What follows the wait, lines 339-354: only a failed _beginthreadex ends
\* the call; the result of the wait is logged and not acted upon.
WorkerStarted(thread, wait_result) == thread # "NULL"

\* Variant: the caller's handle is not written.
OutputHandleUnwritten(e, hwnd, old) == old

\* Line 516: BeginAsyncExecution copies the executor's window handle to the
\* caller's HWND; ExecuteAsync has no such parameter.
OutputHandle(e, hwnd, old) == IF e = "BeginAsyncExecution" THEN hwnd ELSE old

\* Lines 342-354 (503-516): close the event, check the thread handle, read
\* the executor's window handle from the thread context.
CloseEvent(c) ==
  /\ pc[c] = "close_event"
  /\ ReleaseAfterWait(c)
  /\ IF WorkerStarted(thread_handle[c], event_wait_result[c])
       THEN /\ executor_handle' = [executor_handle EXCEPT ![c] =
                                     ThreadContextHwnd(worker[c])]
            /\ async_executor_handle' =
                 [async_executor_handle EXCEPT ![c] =
                    OutputHandle(entry[c], ThreadContextHwnd(worker[c]), @)]
            /\ pc' = [pc EXCEPT ![c] = "marshal_doc"]
            /\ UNCHANGED << result_, return_code >>
       ELSE /\ Fail(c, DescThreadFailed)
            /\ UNCHANGED << executor_handle, async_executor_handle >>
  /\ UNCHANGED << entry, timeout, retry_counter, thread_handle,
                  event_wait_result, is_execution_finished, arg_index >>
  /\ UNCHANGED << scriptFixed, worker, env_handle, histVars >>
  /\ UNCHANGED << host_outcome, jsonVars, bindVars, handler >>

\* CoMarshalInterThreadInterfaceInStream: fails for a null interface, and
\* may fail in COM for any other.
MarshalOutcomes(interface) == IF interface = "NULL" THEN {FALSE} ELSE BOOLEAN

\* Lines 359-368 (521-530): marshal the document into a stream.
MarshalDocument(c) ==
  /\ pc[c] = "marshal_doc"
  /\ \E ok \in MarshalOutcomes(script_engine_host_[c]) :
       IF ok
         THEN /\ pc' = [pc EXCEPT ![c] = "send_doc"]
              /\ UNCHANGED << result_, return_code, hr_failed >>
         ELSE /\ hr_failed' = [hr_failed EXCEPT ![c] = TRUE]
              /\ Fail(c, DescDocMarshal)
  /\ UNCHANGED << entry, timeout, retry_counter, event_handle, thread_handle,
                  event_wait_result, executor_handle, async_executor_handle,
                  is_execution_finished, arg_index >>
  /\ UNCHANGED << scriptFixed, envVars, invoke_args, sent, probes,
                  probes_held, result_before, calls >>
  /\ UNCHANGED << host_outcome, jsonVars, bindVars, handler >>

\* Line 370 (532): send the document stream to the executor.
SendDocument(c) ==
  /\ pc[c] = "send_doc"
  /\ Deliverable(c)
  /\ Send(c, Message("WD_ASYNC_SCRIPT_SET_DOCUMENT", "NULL",
                     [kind |-> "stream", val |-> "document"]))
  /\ pc' = [pc EXCEPT ![c] = "set_args"]
  /\ UNCHANGED << entry, timeout, retry_counter, event_handle, thread_handle,
                  event_wait_result, executor_handle, async_executor_handle,
                  is_execution_finished, return_code, arg_index >>
  /\ UNCHANGED << scriptVars, event_signaled, env_handle, invoke_args,
                  probes, probes_held, hr_failed, result_before, calls >>
  /\ UNCHANGED << host_outcome, jsonVars, bindVars, handler >>

\* The lparam of WD_ASYNC_SCRIPT_SET_ARGUMENT, lines 375-399 and 537-575: a
\* stream for VT_DISPATCH; BeginAsyncExecution also passes the value of
\* strings, booleans, integers and doubles; everything else goes as NULL.
ArgumentParam(e, arg) ==
  IF arg.vt = "VT_DISPATCH" THEN [kind |-> "stream", val |-> arg.val]
  ELSE IF e = "BeginAsyncExecution"
          /\ arg.vt \in {"VT_BSTR", "VT_BOOL", "VT_I4", "VT_I8", "VT_R4", "VT_R8"}
    THEN [kind |-> "value", val |-> arg.val]
  ELSE NoParam

\* Variant: a failed marshal is logged and the loop goes on.
ContinueOnMarshalFailure(ok) == FALSE

\* Whether a failed marshal of an argument ends the call (lines 379-387).
AbortOnMarshalFailure(ok) == ~ok

\* Variant: the loop stops one argument early.
MoreArgumentsSkipLast(index, size) == index + 1 < size

\* The loop condition of line 371 (533): index < argument_array_.size().
MoreArguments(index, size) == index < size

\* Lines 371-401 (533-577): one round of the argument loop.
SetArgument(c) ==
  /\ pc[c] = "set_args"
  /\ MoreArguments(arg_index[c], Len(argument_array_[c]))
  /\ LET arg == argument_array_[c][arg_index[c] + 1] IN
       \E ok \in (IF arg.vt = "VT_DISPATCH" THEN BOOLEAN ELSE {TRUE}) :
         /\ hr_failed' = [hr_failed EXCEPT ![c] = @ \/ ~ok]
         /\ IF AbortOnMarshalFailure(ok)
              THEN /\ Fail(c, DescArgMarshal)
                   /\ UNCHANGED << sent, worker, arg_index >>
              ELSE /\ Deliverable(c)
                   /\ Send(c, Message("WD_ASYNC_SCRIPT_SET_ARGUMENT", arg.vt,
                                      ArgumentParam(entry[c], arg)))
                   /\ arg_index' = [arg_index EXCEPT ![c] = @ + 1]
                   /\ UNCHANGED << pc, result_, return_code >>
  /\ UNCHANGED << entry, timeout, retry_counter, event_handle, thread_handle,
                  event_wait_result, executor_handle, async_executor_handle,
                  is_execution_finished >>
  /\ UNCHANGED << scriptFixed, event_signaled, env_handle, invoke_args,
                  probes, probes_held, result_before, calls >>
  /\ UNCHANGED << host_outcome, jsonVars, bindVars, handler >>

\* Line 408: the number of polls the timeout pays for.
PollBudget(timeout_in_milliseconds) == timeout_in_milliseconds \div PollIntervalMs

\* Lines 402 and 408 (578-579): post the execute request; then
\* BeginAsyncExecution returns and ExecuteAsync starts to poll.
PostExecute(c) ==
  /\ pc[c] = "set_args"
  /\ ~MoreArguments(arg_index[c], Len(argument_array_[c]))
  /\ Send(c, Message("WD_ASYNC_SCRIPT_EXECUTE", "NULL", NoParam))
  /\ IF entry[c] = "BeginAsyncExecution"
       THEN /\ Return(c, "WD_SUCCESS")
            /\ UNCHANGED retry_counter
       ELSE /\ retry_counter' = [retry_counter EXCEPT ![c] = PollBudget(timeout[c])]
            /\ pc' = [pc EXCEPT ![c] = "poll"]
            /\ UNCHANGED return_code
  /\ UNCHANGED << entry, timeout, event_handle, thread_handle,
                  event_wait_result, executor_handle, async_executor_handle,
                  is_execution_finished, arg_index >>
  /\ UNCHANGED << scriptVars, event_signaled, env_handle, invoke_args,
                  probes, probes_held, hr_failed, result_before, calls >>
  /\ UNCHANGED << host_outcome, jsonVars, bindVars, handler >>

\* Variant: the loop polls until the flag is set.
KeepPollingUntilFinished(finished, counter) == ~finished

\* The loop condition of line 410, on the counter before its decrement; the
\* counter is decremented only when the flag was not set.
KeepPolling(finished, counter) == ~finished /\ counter - 1 > 0

\* Lines 409-413: ask the worker whether it is done, then test the loop
\* condition (Sleep(10) separates two polls).
PollComplete(c) ==
  /\ pc[c] = "poll"
  /\ Deliverable(c)
  /\ Send(c, Message("WD_ASYNC_SCRIPT_IS_EXECUTION_COMPLETE", "NULL", NoParam))
  /\ \E finished \in IsCompleteReply(executor_handle[c], worker[c]) :
       /\ is_execution_finished' = [is_execution_finished EXCEPT ![c] = finished]
       /\ retry_counter' = [retry_counter EXCEPT ![c] =
                              IF finished THEN @ ELSE @ - 1]
       /\ pc' = [pc EXCEPT ![c] =
                   IF KeepPolling(finished, retry_counter[c])
                     THEN "poll" ELSE "finish"]
  /\ UNCHANGED << entry, timeout, event_handle, thread_handle,
                  event_wait_result, executor_handle, async_executor_handle,
                  return_code, arg_index >>
  /\ UNCHANGED << scriptVars, event_signaled, env_handle, invoke_args,
                  probes, probes_held, hr_failed, result_before, calls >>
  /\ UNCHANGED << host_outcome, jsonVars, bindVars, handler >>

\* Variant: the listener is detached on both paths.
FinishMessageAlwaysDetach(finished) == "WD_ASYNC_SCRIPT_DETACH_LISTENTER"

\* The message that ends ExecuteAsync, lines 415-431.
FinishMessage(finished) ==
  IF finished THEN "WD_ASYNC_SCRIPT_GET_RESULT"
              ELSE "WD_ASYNC_SCRIPT_DETACH_LISTENTER"

\* Variants: a timeout reported as a failure; the worker's status dropped.
FinishStatusTimeoutIsError(finished, worker_status) ==
  IF finished THEN worker_status ELSE "EUNEXPECTEDJSERROR"

FinishStatusIgnoringWorker(finished, worker_status) == "WD_SUCCESS"

\* The status ExecuteAsync returns, lines 426-432.
FinishStatus(finished, worker_status) ==
  IF finished THEN worker_status ELSE "WD_SUCCESS"

\* Lines 415-433: fetch the worker's status, or detach from it.
Finish(c) ==
  /\ pc[c] = "finish"
  /\ Deliverable(c)
  /\ Send(c, Message(FinishMessage(is_execution_finished[c]), "NULL", NoParam))
  /\ \E status_code \in GetResultReply(executor_handle[c], worker[c]) :
       Return(c, FinishStatus(is_execution_finished[c], status_code))
  /\ UNCHANGED << entry, timeout, retry_counter, event_handle, thread_handle,
                  event_wait_result, executor_handle, async_executor_handle,
                  is_execution_finished, arg_index >>
  /\ UNCHANGED << scriptVars, event_signaled, env_handle, invoke_args,
                  probes, probes_held, hr_failed, result_before, calls >>
  /\ UNCHANGED << host_outcome, jsonVars, bindVars, handler >>

\* ------------------------------------------------ JSON argument ingestion
\* JSON values as the command handlers hand them to AddArguments.  A member
\* name is the sequence of its characters; the text "arguments[k]" counts as
\* one character of a name or of a script.
JsonScalar(type, val) == [type |-> type, val |-> val]
JsonArrayOf(items) == [type |-> "array", items |-> items]
Member(name, value) == [name |-> name, value |-> value]
JsonObjectOf(members) == [type |-> "object", members |-> members]

\* Line 671: the member name that marks an element reference.
ElementMarker == << "element-6066-11e4-a52e-4f735466cecf" >>
ElementReference(id) ==
  JsonObjectOf(<< Member(ElementMarker, JsonScalar("string", id)) >>)

\* Json::Value::isMember and operator[] by member name.
IsMember(object, name) ==
  \E i \in DOMAIN object.members : object.members[i].name = name
MemberValue(object, name) ==
  object.members[CHOOSE i \in DOMAIN object.members :
                   object.members[i].name = name].value

\* The characters of script text.
Quote == "\""
ArgTokens == << "arguments[0]", "arguments[1]", "arguments[2]" >>
IsArgToken(t) == \E k \in DOMAIN ArgTokens : ArgTokens[k] = t
ArgIndex(t) == (CHOOSE k \in DOMAIN ArgTokens : ArgTokens[k] = t) - 1
\* std::to_wstring(index) inside "arguments[" ... "]"
ArgToken(index) ==
  IF index + 1 \in DOMAIN ArgTokens THEN ArgTokens[index + 1] ELSE "arguments[n]"

\* WalkArray, lines 711-719: the text of the synthetic array function.
RECURSIVE ArrayItemsText(_, _)
ArrayItemsText(index, array_size) ==
  IF index >= array_size THEN << >>
  ELSE (IF index # 0 THEN << "," >> ELSE << >>)
         \o << ArgToken(index) >> \o ArrayItemsText(index + 1, array_size)

ArrayScript(array_size) ==
  << "return [" >> \o ArrayItemsText(0, array_size) \o << "]" >>

\* WalkObject, lines 746-757: the text of the synthetic object function; a
\* member name is copied between two quotes as it is.
RECURSIVE ObjectMembersText(_, _)
ObjectMembersText(members, counter) ==
  IF counter >= Len(members) THEN << >>
  ELSE (IF counter # 0 THEN << "," >> ELSE << >>)
         \o << Quote >> \o members[counter + 1].name
         \o << Quote, ":", ArgToken(counter) >>
         \o ObjectMembersText(members, counter + 1)

ObjectScript(members) ==
  << "return {" >> \o ObjectMembersText(members, 0) \o << "}" >>

\* How the script engine reads such a text.  A syntax error makes execScript
\* fail.  An array literal is a list of expressions; an object literal is a
\* list of "name":expression pairs, a name ending at the next quote.
SyntaxError == [ok |-> FALSE, fields |-> << >>]

RECURSIVE ParseItems(_, _, _)
ParseItems(text, i, acc) ==
  IF i > Len(text) \/ ~IsArgToken(text[i]) \/ i + 1 > Len(text)
    THEN SyntaxError
  ELSE LET field == [name |-> << >>, index |-> ArgIndex(text[i])] IN
    IF text[i + 1] = "]" /\ i + 1 = Len(text)
      THEN [ok |-> TRUE, fields |-> Append(acc, field)]
    ELSE IF text[i + 1] = ","
      THEN ParseItems(text, i + 2, Append(acc, field))
    ELSE SyntaxError

RECURSIVE ParseMembers(_, _, _)
ParseMembers(text, i, acc) ==
  IF i > Len(text) \/ text[i] # Quote THEN SyntaxError
  ELSE IF ~\E j \in (i + 1)..Len(text) : text[j] = Quote THEN SyntaxError
  ELSE
    LET j == CHOOSE j \in (i + 1)..Len(text) :
               /\ text[j] = Quote
               /\ \A h \in (i + 1)..(j - 1) : text[h] # Quote
    IN IF j + 3 > Len(text) \/ text[j + 1] # ":" \/ ~IsArgToken(text[j + 2])
         THEN SyntaxError
       ELSE LET field == [name |-> SubSeq(text, i + 1, j - 1),
                          index |-> ArgIndex(text[j + 2])]
            IN IF text[j + 3] = "}" /\ j + 3 = Len(text)
                 THEN [ok |-> TRUE, fields |-> Append(acc, field)]
               ELSE IF text[j + 3] = ","
                 THEN ParseMembers(text, j + 4, Append(acc, field))
               ELSE SyntaxError

ParseScript(text) ==
  IF Len(text) < 2 THEN SyntaxError
  ELSE IF text[1] = "return [" THEN
    IF text[2] = "]" /\ Len(text) = 2 THEN [ok |-> TRUE, fields |-> << >>]
    ELSE ParseItems(text, 2, << >>)
  ELSE IF text[1] = "return {" THEN
    IF text[2] = "}" /\ Len(text) = 2 THEN [ok |-> TRUE, fields |-> << >>]
    ELSE ParseMembers(text, 2, << >>)
  ELSE SyntaxError

\* The values the host builds: a JavaScript array or object behind an
\* IDispatch.
ArrayVariant(items) == [vt |-> "VT_DISPATCH", val |-> "array", items |-> items]
ObjectVariant(fields) == [vt |-> "VT_DISPATCH", val |-> "object", fields |-> fields]
Field(name, value) == [name |-> name, value |-> value]

\* IDispatch::Invoke of "call" with DISPATCH_METHOD: rgvarg holds the
\* parameters last to first, so the last entry is the first parameter of
\* call (the receiver) and the entries before it, read backwards, are
\* arguments[0], arguments[1], ...; an index past them reads undefined.
JsArguments(rgvarg) == [ i \in 1..(Len(rgvarg) - 1) |-> rgvarg[Len(rgvarg) - i] ]
JsArgument(rgvarg, index) ==
  IF index + 1 \in DOMAIN JsArguments(rgvarg)
    THEN JsArguments(rgvarg)[index + 1] ELSE EmptyVariant

\* The value a synthetic function returns when called with rgvarg.
HostCall(text, rgvarg) ==
  LET parsed == ParseScript(text) IN
    IF text[1] = "return ["
      THEN ArrayVariant([ i \in DOMAIN parsed.fields |->
                            JsArgument(rgvarg, parsed.fields[i].index) ])
      ELSE ObjectVariant([ i \in DOMAIN parsed.fields |->
                             Field(parsed.fields[i].name,
                                   JsArgument(rgvarg, parsed.fields[i].index)) ])

\* A Script object as a value: the enclosing invocation and the synthetic
\* ones built while walking.  ub records a store outside the vector.
NewScript(host, source, count) ==
  [ host |-> host, source |-> source, count |-> count,
    args |-> Initialize(count), idx |-> 0, result |-> EmptyVariant,
    ub |-> FALSE ]

\* Script::AddArgument(VARIANT) on such a value (the stray-store outcome of
\* an index at or past size()).
StoreArgument(w, v) ==
  IF w.idx < Len(w.args)
    THEN [w EXCEPT !.args[w.idx + 1] = v, !.idx = @ + 1]
    ELSE [w EXCEPT !.ub = TRUE, !.idx = @ + 1]

\* Lines 656-669: the scalar overloads wrap the value in a CComVariant.
ScalarTypes == { "string", "int", "double", "bool", "null" }
ScalarVariant(arg) ==
  CASE arg.type = "string" -> Variant("VT_BSTR", arg.val)
    [] arg.type = "int" -> Variant("VT_I4", arg.val)
    [] arg.type = "double" -> Variant("VT_R8", arg.val)
    [] arg.type = "bool" -> Variant("VT_BOOL", arg.val)
    [] OTHER -> NullVariant

\* What the ingestion did, in order.  ev is one of: "element" / "status"
\* (AddArguments starts / ends element pos of its array; args and pos2 are
\* the vector and the fill position at that moment), "lookup" (the element
\* repository is asked for element st and answers reply), "new" (synthetic invocation id is
\* built inside invocation parent with declared count pos, for st = "array"
\* or "object", names its member names, src its text), "add" (res is stored
\* at position pos of invocation id), "execute" (invocation id is executed
\* with the vector args and returns st, its result res).
Event(ev, id, parent, pos, st) ==
  [ ev |-> ev, id |-> id, parent |-> parent, pos |-> pos, st |-> st,
    args |-> << >>, pos2 |-> 0, res |-> EmptyVariant, names |-> << >>,
    src |-> << >>, reply |-> "" ]
Logged(k, event) == [k EXCEPT !.log = Append(@, event)]
NoLog == [ log |-> << >>, ids |-> 0, execs |-> 0 ]
Outcome3(w, k, status) == [ w |-> w, k |-> k, status |-> status ]
Stored(w, id, v, k) ==
  Outcome3(StoreArgument(w, v),
           Logged(k, [Event("add", id, 0, w.idx, "") EXCEPT !.res = v]),
           "WD_SUCCESS")

\* The element repository's answer to WD_GET_MANAGED_ELEMENT.
GetManagedElement(elements, element_id, failure) ==
  IF element_id \in DOMAIN elements /\ elements[element_id].managed
    THEN "WD_SUCCESS" ELSE failure

\* Variants: the owning document is not compared; the attachment is not
\* looked at.
IsElementValidIfAttached(attached, parent_doc, host) == attached
IsElementValidIfSameDocument(attached, parent_doc, host) == parent_doc = host

\* Lines 684-689: attached to the DOM, and its document is the host's.
IsElementValid(attached, parent_doc, host) == attached /\ parent_doc = host

\* Variant: the loops go on after a failure.
BreakNever(status_code) == FALSE

\* Lines 644-646, 724-726, 762-764: the loops stop at the first failure.
BreakOnFailure(status_code) == status_code # "WD_SUCCESS"

\* Variant: the synthetic invocation is executed whatever the ingestion said.
ExecuteWrapperAlways(status_code) == TRUE

\* Lines 729-731 and 767-769: the synthetic invocation is executed only when all
\* its arguments were ingested.
ExecuteWrapperIf(status_code) == status_code = "WD_SUCCESS"

\* What the host does with a synthetic invocation: its text may not parse;
\* the host may fail at the execution numbered env.fail_at; else it calls it.
SyntheticOutcome(w, k, env) ==
  IF ~ParseScript(w.source).ok
    THEN [kind |-> "create_failed", value |-> EmptyVariant]
  ELSE IF k.execs + 1 = env.fail_at
    THEN [kind |-> env.fail_kind, value |-> EmptyVariant]
  ELSE [kind |-> "ok", value |-> HostCall(w.source, InvokeArguments(w.args))]

RECURSIVE AddArgumentJson(_, _, _, _, _)
RECURSIVE IngestAll(_, _, _, _, _, _, _)
RECURSIVE IngestNext(_, _, _, _, _)
RECURSIVE WalkWith(_, _, _, _, _, _, _, _)

\* Lines 722-727 and 760-765: the arguments of a synthetic invocation.
IngestAll(w, id, values, i, status, k, env) ==
  IF i > Len(values) THEN Outcome3(w, k, status)
  ELSE IngestNext(AddArgumentJson(w, id, values[i], k, env),
                  id, values, i, env)

\* Lines 724-726 and 762-764: after argument i returned r, stop or go on.
IngestNext(r, id, values, i, env) ==
  IF BreakOnFailure(r.status) THEN r
  ELSE IngestAll(r.w, id, values, i + 1, r.status, r.k, env)

\* Lines 733-735 and 771-773: the wrapper r.w was executed with outcome o;
\* on success its result is added to the enclosing invocation w.
AddWrapperResult(w, id, nid, r, o) ==
  LET status == ExecuteStatus(r.w.host, o)
      result == ExecuteResult(r.w.host, o, r.w.result)
      k2 == Logged([r.k EXCEPT !.execs = @ + 1],
                   [Event("execute", nid, id, 0, status)
                      EXCEPT !.args = r.w.args, !.res = result])
  IN IF status # "WD_SUCCESS" THEN Outcome3(w, k2, status)
     ELSE Stored(w, id, result, k2)

\* Lines 729-731 and 767-769: the wrapper's arguments were ingested with
\* outcome r; execute it when they all succeeded.
ExecuteWrapper(w, id, nid, r, env) ==
  IF ~ExecuteWrapperIf(r.status) THEN Outcome3(w, r.k, r.status)
  ELSE AddWrapperResult(w, id, nid, r, SyntheticOutcome(r.w, r.k, env))

\* Lines 721-737 and 759-774: build the synthetic invocation, ingest its
\* arguments, execute it, add its result to the enclosing invocation.
WalkWith(w, id, kind, source, values, names, k, env) ==
  ExecuteWrapper(w, id, k.ids + 1,
    IngestAll(NewScript(w.host, source, Len(values)), k.ids + 1, values, 1,
              "WD_SUCCESS",
              Logged([k EXCEPT !.ids = k.ids + 1],
                     [Event("new", k.ids + 1, id, Len(values), kind)
                        EXCEPT !.names = names, !.src = source]),
              env),
    env)

\* Script::WalkArray.
WalkArray(w, id, array_value, k, env) ==
  WalkWith(w, id, "array", ArrayScript(Len(array_value.items)),
           array_value.items, << >>, k, env)

\* Script::WalkObject: the members in enumeration order, each value looked
\* up again by its member's name.
WalkObject(w, id, object_value, k, env) ==
  LET names == [ i \in DOMAIN object_value.members |->
                   object_value.members[i].name ]
  IN WalkWith(w, id, "object", ObjectScript(object_value.members),
              [ i \in DOMAIN names |-> MemberValue(object_value, names[i]) ],
              names, k, env)

\* Script::AddArgument(HWND, const Json::Value&).
AddArgumentJson(w, id, arg, k, env) ==
  IF arg.type \in ScalarTypes THEN Stored(w, id, ScalarVariant(arg), k)
  ELSE IF arg.type = "array" THEN WalkArray(w, id, arg, k, env)
  ELSE IF arg.type = "object" THEN
    IF IsMember(arg, ElementMarker)
      THEN LET element_id == MemberValue(arg, ElementMarker).val
               status == GetManagedElement(env.dom, element_id,
                                           env.lookup_failure)
               k1 == Logged(k, [Event("lookup", id, 0, w.idx, element_id)
                                  EXCEPT !.reply = status])
           IN IF status # "WD_SUCCESS" THEN Outcome3(w, k1, status)
              ELSE IF IsElementValid(env.dom[element_id].attached,
                                     env.dom[element_id].document, w.host)
                THEN Stored(w, id, Variant("VT_DISPATCH", element_id), k1)
              ELSE Outcome3(w, k1, "EOBSOLETEELEMENT")
      ELSE WalkObject(w, id, arg, k, env)
  ELSE Outcome3(w, k, "WD_SUCCESS")

\* vector::resize: cut, or padded with empty variants.
Resize(vector, size) ==
  [ i \in 1..size |-> IF i <= Len(vector) THEN vector[i] ELSE EmptyVariant ]

\* Script::AddArguments, lines 641-647: the loop over the JSON array.
RECURSIVE AddArgumentsLoop(_, _, _, _, _, _)
RECURSIVE AddArgumentsNext(_, _, _, _)
AddArgumentsLoop(w, arguments, index, status, k, env) ==
  IF index >= Len(arguments) THEN Outcome3(w, k, status)
  ELSE AddArgumentsNext(
         AddArgumentJson(w, 0, arguments[index + 1],
                         Logged(k, [Event("element", 0, 0, index, "")
                                      EXCEPT !.args = w.args, !.pos2 = w.idx]),
                         env),
         arguments, index, env)

\* Lines 644-646: after arguments[index] returned r, stop or go on.
AddArgumentsNext(r, arguments, index, env) ==
  LET k2 == Logged(r.k, [Event("status", 0, 0, index, r.status)
                           EXCEPT !.args = r.w.args, !.pos2 = r.w.idx])
  IN IF BreakOnFailure(r.status) THEN Outcome3(r.w, k2, r.status)
     ELSE AddArgumentsLoop(r.w, arguments, index + 1, r.status, k2, env)

\* The page changes between two calls: an element is dropped from the
\* repository, removed from the DOM, or found in another document.
ElementChanges ==
  /\ pc[Main] = "idle"
  /\ \E e \in Elements, s \in ElementStates :
       /\ s # dom[e]
       /\ dom' = [dom EXCEPT ![e] = s]
  /\ UNCHANGED << scriptVars, callVars, envVars, histVars, host_outcome,
                  ingest_input, ingest_log, args_before, bindVars, handler >>

\* The JSON arrays the command handlers pass.
NameA == << "a" >>
NameB == << "b" >>
NameWithQuote == << "a", Quote >>
NameWithText == << "a", Quote, ":", "arguments[0]", ",", Quote, "b" >>
Int7 == JsonScalar("int", "7")
StrS == JsonScalar("string", "s")
ArgumentLists ==
  << << >>,
     << Int7 >>,
     << StrS, JsonScalar("null", ""), JsonScalar("bool", "true") >>,
     << JsonScalar("double", "1.5"), ElementReference("e1") >>,
     << Int7, ElementReference("e1"), StrS >>,
     << ElementReference("e1"), ElementReference("e2") >>,
     << JsonArrayOf(<< Int7, StrS >>) >>,
     << JsonArrayOf(<< JsonArrayOf(<< ElementReference("e1") >>), Int7 >>) >>,
     << JsonArrayOf(<< JsonArrayOf(<< >>), JsonArrayOf(<< >>) >>) >>,
     << JsonObjectOf(<< Member(NameA, Int7),
                        Member(NameB, ElementReference("e2")) >>) >>,
     << JsonObjectOf(<< Member(NameA,
          JsonArrayOf(<< Int7,
                         JsonObjectOf(<< Member(NameB,
                                                JsonScalar("bool", "true")) >>)
                      >>)) >>) >>,
     << JsonObjectOf(<< Member(NameWithQuote, Int7) >>) >>,
     << JsonObjectOf(<< Member(NameWithText, Int7) >>) >>,
     << Int7, JsonArrayOf(<< StrS >>) >> >>

\* The ways a synthetic invocation's Execute fails in the host, and the
\* statuses with which the repository refuses an identifier.
NestedFailures == { "create_failed", "invoke_threw" }
LookupFailures == { "ENOSUCHELEMENT", "EOBSOLETEELEMENT" }

\* The arrays and marker-less objects of a JSON value, and the element
\* references in it.
RECURSIVE Composites(_)
RECURSIVE SumOver(_, _)
SumOver(values, i) ==
  IF i > Len(values) THEN 0 ELSE Composites(values[i]) + SumOver(values, i + 1)
Composites(value) ==
  IF value.type = "array" THEN 1 + SumOver(value.items, 1)
  ELSE IF value.type = "object" /\ ~IsMember(value, ElementMarker)
    THEN 1 + SumOver([ i \in DOMAIN value.members |-> value.members[i].value ], 1)
  ELSE 0

RECURSIVE References(_)
References(value) ==
  IF value.type = "array"
    THEN UNION { References(value.items[i]) : i \in DOMAIN value.items }
  ELSE IF value.type = "object" THEN
    IF IsMember(value, ElementMarker)
      THEN { MemberValue(value, ElementMarker).val }
      ELSE UNION { References(value.members[i].value) :
                     i \in DOMAIN value.members }
  ELSE { }

\* The executions of synthetic invocations at which the host can fail, and
\* the refusals the repository can give, for a JSON array and a page.
FailurePoints(arguments) ==
  { [at |-> 0, kind |-> "none"] }
    \cup { [at |-> n, kind |-> kind] :
             n \in 1..SumOver(arguments, 1), kind \in NestedFailures }
Refusals(arguments, elements) ==
  IF \E e \in References(JsonArrayOf(arguments)) : ~elements[e].managed
    THEN LookupFailures ELSE { "none" }

\* Script::AddArguments, line 649: what the call leaves behind when its loop
\* ended with r.  A store outside the vector either strays or faults.
AddArgumentsReturn(c, fault, r) ==
  /\ fault => r.w.ub
  /\ IF fault
       THEN /\ pc' = [pc EXCEPT ![c] = "crashed"]
            /\ UNCHANGED << argument_array_, current_arg_index_,
                            heap_corrupt, return_code, ingest_log >>
       ELSE /\ argument_array_' = [argument_array_ EXCEPT ![c] = r.w.args]
            /\ current_arg_index_' =
                 [current_arg_index_ EXCEPT ![c] = r.w.idx]
            /\ heap_corrupt' = [heap_corrupt EXCEPT ![c] = @ \/ r.w.ub]
            /\ Return(c, r.status)
            /\ ingest_log' = r.k.log

\* Script::AddArguments: resize the vector to the size of the JSON array,
\* then ingest its elements.
AddArguments(c) ==
  /\ pc[c] = "idle"
  /\ \E n \in DOMAIN ArgumentLists, fault \in BOOLEAN :
     \E failure \in FailurePoints(ArgumentLists[n]),
        lookup_failure \in Refusals(ArgumentLists[n], dom) :
       /\ AddArgumentsReturn(c, fault,
            AddArgumentsLoop(
              [ NewScript(script_engine_host_[c], << >>, argument_count_[c])
                  EXCEPT !.args = Resize(argument_array_[c],
                                         Len(ArgumentLists[n])),
                         !.idx = current_arg_index_[c],
                         !.result = result_[c] ],
              ArgumentLists[n], 0, "WD_SUCCESS", NoLog,
              [ dom |-> dom, lookup_failure |-> lookup_failure,
                fail_at |-> failure.at, fail_kind |-> failure.kind ]))
       /\ ingest_input' = ArgumentLists[n]
  /\ entry' = [entry EXCEPT ![c] = "AddArguments"]
  /\ args_before' = [ args |-> argument_array_[c],
                      idx |-> current_arg_index_[c] ]
  /\ calls' = [calls EXCEPT ![c] = @ + 1]
  /\ host_outcome' = [host_outcome EXCEPT ![c] = "none"]
  /\ invoke_args' = [invoke_args EXCEPT ![c] = << >>]
  /\ UNCHANGED << script_engine_host_, argument_count_, result_, dom >>
  /\ UNCHANGED << timeout, retry_counter, event_handle, thread_handle,
                  event_wait_result, executor_handle, async_executor_handle,
                  is_execution_finished, arg_index >>
  /\ UNCHANGED << envVars, sent, probes, probes_held, hr_failed,
                  result_before >>
  /\ UNCHANGED << bindVars, handler >>

\* ------------------------------------------------- Execute, step by step
\* The calls Execute makes into the host are separate calls on the document:
\* execScript, the read of the property, Invoke.  Between two of them the
\* document can serve another Script bound to it, such as the one a worker
\* thread executes through its marshaled interface.

\* The function compiled from the source text of c's Script.
SourceOf(c) == c

\* The frame common to the steps.
ExecuteStepFrame ==
  /\ UNCHANGED << script_engine_host_, argument_count_, argument_array_,
                  current_arg_index_, heap_corrupt >>
  /\ UNCHANGED << timeout, retry_counter, event_handle, thread_handle,
                  event_wait_result, executor_handle, async_executor_handle,
                  is_execution_finished, arg_index >>
  /\ UNCHANGED << envVars, sent, probes, probes_held, hr_failed >>
  /\ UNCHANGED << jsonVars, handler >>

\* Lines 185-190 and 604-621: execScript evaluates
\* "window.document.__webdriver_script_fn = <source>", which binds this
\* Script's function to the property, or fails.
ExecScript(c) ==
  /\ pc[c] = "idle"
  /\ script_engine_host_[c] # "NULL"
  /\ \E ok \in BOOLEAN :
       IF ok
         THEN /\ webdriver_script_fn' = SourceOf(c)
              /\ pc' = [pc EXCEPT ![c] = "get_function"]
              /\ host_outcome' = [host_outcome EXCEPT ![c] = "none"]
              /\ UNCHANGED return_code
         ELSE /\ Return(c, "EUNEXPECTEDJSERROR")
              /\ host_outcome' = [host_outcome EXCEPT ![c] = "create_failed"]
              /\ UNCHANGED webdriver_script_fn
  /\ entry' = [entry EXCEPT ![c] = "Execute"]
  /\ result_before' = [result_before EXCEPT ![c] = result_[c]]
  /\ calls' = [calls EXCEPT ![c] = @ + 1]
  /\ invoke_args' = [invoke_args EXCEPT ![c] = << >>]
  /\ UNCHANGED << result_, temp_function, invoked_fn >>
  /\ ExecuteStepFrame

\* Lines 623-627: GetVariantObjectPropertyValue reads the property
\* __webdriver_script_fn of the document into temp_function, or fails.
GetFunction(c) ==
  /\ pc[c] = "get_function"
  /\ \E ok \in BOOLEAN :
       IF ok
         THEN /\ temp_function' = [temp_function EXCEPT ![c] = webdriver_script_fn]
              /\ pc' = [pc EXCEPT ![c] = "invoke_function"]
              /\ UNCHANGED << return_code, host_outcome >>
         ELSE /\ Return(c, "EUNEXPECTEDJSERROR")
              /\ host_outcome' = [host_outcome EXCEPT ![c] = "create_failed"]
              /\ UNCHANGED temp_function
  /\ UNCHANGED << entry, result_before, calls, invoke_args, result_,
                  webdriver_script_fn, invoked_fn >>
  /\ ExecuteStepFrame

\* Lines 201-271 on the path where every call succeeds: Invoke calls the
\* function held in temp_function.
InvokeFunction(c) ==
  /\ pc[c] = "invoke_function"
  /\ invoked_fn' = [invoked_fn EXCEPT ![c] = temp_function[c]]
  /\ invoke_args' = [invoke_args EXCEPT ![c] = InvokeArguments(argument_array_[c])]
  /\ \E r \in HostResults : result_' = [result_ EXCEPT ![c] = r]
  /\ host_outcome' = [host_outcome EXCEPT ![c] = "ok"]
  /\ Return(c, "WD_SUCCESS")
  /\ UNCHANGED << entry, result_before, calls, webdriver_script_fn,
                  temp_function >>
  /\ ExecuteStepFrame

\* ------------------------------------------------------- specifications
Coordinator(c) ==
  \/ ExecuteAsync(c)
  \/ BeginAsyncExecution(c)
  \/ ProbeRetry(c)
  \/ ProbeAgain(c)
  \/ ProbeGiveUp(c)
  \/ CreateEvent(c)
  \/ CreateEventExists(c)
  \/ BeginThread(c)
  \/ WaitForSingleObject(c)
  \/ CloseEvent(c)
  \/ MarshalDocument(c)
  \/ SendDocument(c)
  \/ SetArgument(c)
  \/ PostExecute(c)
  \/ PollComplete(c)
  \/ Finish(c)

Worker(c) ==
  \/ WorkerCreateWindow(c)
  \/ WorkerSignalReady(c)
  \/ WorkerComplete(c)

Next ==
  \/ AddArgument(Main)
  \/ Execute(Main)
  \/ Resume(Main)
  \/ Coordinator(Main)
  \/ Worker(Main)
  \/ EnvAcquire
  \/ EnvRelease

Spec == Init /\ [][Next]_vars

\* The asynchronous entry points alone, under the scheduling the threads
\* get: the caller's thread keeps running, and a started worker thread
\* reaches its message loop.  Nothing makes the posted script complete, and
\* nothing makes another instance release the event.
NextAsync ==
  \/ Coordinator(Main)
  \/ Worker(Main)
  \/ EnvAcquire
  \/ EnvRelease

SpecAsyncFair ==
  /\ Init
  /\ [][NextAsync]_vars
  /\ WF_vars(Coordinator(Main))
  /\ WF_vars(WorkerCreateWindow(Main))
  /\ WF_vars(WorkerSignalReady(Main))

\* Several driver instances race through the asynchronous entry points, each
\* with a script constructed for RaceArgCount arguments and none added yet.
InitRace ==
  /\ InitScript({"doc"}, {RaceArgCount})
  /\ InitCall

NextRace == \E c \in Callers : Coordinator(c) \/ Worker(c)

SpecRace == InitRace /\ [][NextRace]_vars

\* A command handler fills a Script from the JSON arguments of its command
\* and executes it, while the page changes between its calls.
NextJson ==
  \/ AddArguments(Main)
  \/ Resume(Main)
  \/ ElementChanges

SpecJson == Init /\ [][NextJson]_vars

\* A command handler fills a Script from the JSON arguments of its command
\* and hands it to a worker through one of the asynchronous entry points.
NextHandoff ==
  \/ AddArguments(Main)
  \/ Resume(Main)
  \/ Coordinator(Main)
  \/ Worker(Main)
  \/ EnvAcquire
  \/ EnvRelease

SpecHandoff == Init /\ [][NextHandoff]_vars

\* Two Scripts bound to one document are executed while the document serves
\* both.
InitBinding ==
  /\ InitScript({"doc"}, {0})
  /\ InitCall

NextBinding ==
  \E c \in Callers :
    \/ ExecScript(c)
    \/ GetFunction(c)
    \/ InvokeFunction(c)
    \/ Resume(c)

SpecBinding == InitBinding /\ [][NextBinding]_vars

\* ------------------------------ GetElementTextCommandHandler::ExecuteInternal
\* The statuses the two lookups of the handler can return.
BrowserStatuses == { "WD_SUCCESS", "ENOSUCHWINDOW" }
ElementStatuses == { "WD_SUCCESS", "ENOSUCHELEMENT", "EOBSOLETEELEMENT" }

\* Response::SetErrorResponse and Response::SetSuccessResponse.
ErrorResponse(status_code, message) ==
  [ kind |-> "error", status |-> status_code, value |-> message ]
SuccessResponse(value) ==
  [ kind |-> "success", status |-> "WD_SUCCESS", value |-> value ]

\* Lines 58-60: the get-text atom wrapped in a function.
GetTextSource == << "(function() { return (", "GET_TEXT", ")})();" >>

\* Script::ConvertResultToString, lines 596-599: the string that
\* VariantUtilities makes of result_.
ConvertResultToString(result) == [ string_of |-> result ]

\* The handler's frame: it works on a Script of its own.
HandlerFrame ==
  UNCHANGED << scriptVars, callVars, envVars, histVars, host_outcome,
               jsonVars, bindVars >>

SetResponse(response) ==
  handler' = [handler EXCEPT !.responses = Append(@, response),
                             !.pc = "done"]

\* Lines 37-42: look for the id parameter.
HandlerFindId ==
  /\ handler.pc = "none"
  /\ \E present \in BOOLEAN, id \in Elements :
       IF ~present
         THEN SetResponse(ErrorResponse("400", "Missing parameter in URL: id"))
         ELSE handler' = [handler EXCEPT !.pc = "get_browser",
                                         !.has_id = TRUE,
                                         !.element_id = id]
  /\ HandlerFrame

\* Lines 44-49: executor.GetCurrentBrowser.
HandlerGetCurrentBrowser ==
  /\ handler.pc = "get_browser"
  /\ \E status_code \in BrowserStatuses :
       IF status_code # "WD_SUCCESS"
         THEN handler' = [handler EXCEPT
                            !.status_code = status_code,
                            !.browser_status = status_code,
                            !.responses = Append(@,
                               ErrorResponse(status_code, "Unable to get browser")),
                            !.pc = "done"]
         ELSE handler' = [handler EXCEPT !.status_code = status_code,
                                         !.browser_status = status_code,
                                         !.pc = "get_element"]
  /\ HandlerFrame

\* Line 53: the test of GetElement's status.
ElementFound(status_code) == status_code = "WD_SUCCESS"

\* Lines 51-53 and 78-81: this->GetElement.
HandlerGetElement ==
  /\ handler.pc = "get_element"
  /\ \E status_code \in ElementStatuses :
       IF ElementFound(status_code)
         THEN handler' = [handler EXCEPT !.status_code = status_code,
                                         !.element_status = status_code,
                                         !.pc = "create_script"]
         ELSE handler' = [handler EXCEPT
                            !.status_code = status_code,
                            !.element_status = status_code,
                            !.responses = Append(@,
                               ErrorResponse(status_code,
                                             "Element is no longer valid")),
                            !.pc = "done"]
  /\ HandlerFrame

\* Lines 58-64: the document of the browser, whatever GetDocument left in
\* doc, and a Script on it declared for one argument.
HandlerCreateScript ==
  /\ handler.pc = "create_script"
  /\ \E doc \in { "doc", "NULL" } :
       handler' = [handler EXCEPT
                     !.doc = doc,
                     !.script = << NewScript(doc, GetTextSource, 1) >>,
                     !.pc = "add_argument"]
  /\ HandlerFrame

\* Line 65: script_wrapper.AddArgument(element_wrapper->element()).
HandlerAddArgument ==
  /\ handler.pc = "add_argument"
  /\ handler' = [handler EXCEPT
                   !.script = << StoreArgument(handler.script[1],
                                   Variant("VT_DISPATCH", handler.element_id)) >>,
                   !.pc = "execute"]
  /\ HandlerFrame

\* Line 66: status_code = script_wrapper.Execute().
HandlerExecute ==
  /\ handler.pc = "execute"
  /\ \E o \in HostOutcomes :
       LET w == handler.script[1]
           status_code == ExecuteStatus(w.host, o)
       IN handler' = [handler EXCEPT
                        !.status_code = status_code,
                        !.script = << [w EXCEPT !.result =
                                         ExecuteResult(w.host, o, w.result)] >>,
                        !.executions = Append(@,
                           [ script |-> w, returned |-> status_code ]),
                        !.pc = "respond"]
  /\ HandlerFrame

\* Variant: the text is sent whatever Execute returned.
ExecuteResponseAlwaysText(status_code, text) == SuccessResponse(text)

\* Lines 68-77: the response after Execute.
ExecuteResponse(status_code, text) ==
  IF status_code = "WD_SUCCESS"
    THEN SuccessResponse(text)
    ELSE ErrorResponse(status_code, "Unable to get element text")

HandlerRespond ==
  /\ handler.pc = "respond"
  /\ SetResponse(ExecuteResponse(handler.status_code,
                   ConvertResultToString(handler.script[1].result)))
  /\ HandlerFrame

\* ExecuteInternal has returned: what was set on its response goes to the
\* client, and the next command gets a new response.
HandlerReturn ==
  /\ handler.pc = "done"
  /\ Len(handler.served) < MaxCommands
  /\ handler' = [NoHandler EXCEPT
                   !.served = Append(handler.served, handler.responses)]
  /\ HandlerFrame

\* The handler serves one get-element-text command after another.
NextGetText ==
  \/ HandlerFindId
  \/ HandlerGetCurrentBrowser
  \/ HandlerGetElement
  \/ HandlerCreateScript
  \/ HandlerAddArgument
  \/ HandlerExecute
  \/ HandlerRespond
  \/ HandlerReturn

SpecGetText == InitBinding /\ [][NextGetText]_vars

\* ================================================================ claims
Count(c, msg) == Cardinality({ i \in DOMAIN sent[c] : sent[c][i].msg = msg })
Polls(c) == Count(c, "WD_ASYNC_SCRIPT_IS_EXECUTION_COMPLETE")
AsyncReturned(c) == pc[c] = "returned" /\ entry[c] = "ExecuteAsync"
\* ExecuteAsync returned after its poll loop ended without / with the
\* completion flag observed.
TimedOut(c) == AsyncReturned(c) /\ Polls(c) >= 1 /\ ~is_execution_finished[c]
SawFlag(c) == AsyncReturned(c) /\ is_execution_finished[c]
\* ... and the flag observed was the worker's own.
Completed(c) == SawFlag(c) /\ executor_handle[c] = "hwnd"

\* C1: whenever Execute has reached Invoke for an argument list of length
\* N, the array handed to the host has N+1 entries, the argument at list
\* position i (0-based) is at position N-1-i, and position N is the window.
C1_ReversedWithReceiver ==
  \A c \in Callers :
    (pc[c] = "returned" /\ entry[c] = "Execute" /\ invoke_args[c] # << >>) =>
      LET N == Len(argument_array_[c]) IN
        /\ Len(invoke_args[c]) = N + 1
        /\ invoke_args[c][N + 1] = WindowVariant
        /\ \A i \in 0..(N - 1) :
             invoke_args[c][(N - 1 - i) + 1] = argument_array_[c][i + 1]

C1_Witness ==
  \E c \in Callers :
    /\ pc[c] = "returned" /\ entry[c] = "Execute"
    /\ Len(invoke_args[c]) = 3
    /\ current_arg_index_[c] = 2
    /\ argument_array_[c][1] # argument_array_[c][2]

\* C2: at no time do two callers both hold the bootstrap event as its
\* creator (created without ERROR_ALREADY_EXISTS and not yet closed).
InHandshake(c) == event_handle[c] = "created"

C2_OneHandshake ==
  \A c, d \in Callers : (c # d) => ~(InHandshake(c) /\ InHandshake(d))

\* One caller is in its handshake while another, whose probe had found no
\* event either, has just lost the race in CreateEvent.
C2_Witness ==
  \E c, d \in Callers :
    /\ c # d
    /\ InHandshake(c) /\ pc[c] = "wait"
    /\ event_handle[d] = "existing"

\* C3: no more than RetryCount probes are made; a call all of whose
\* RetryCount probes found the event returns the failure with the "event
\* already exists" description, having started no worker and sent no
\* message; and only such a call returns that failure.
C3_HeldThroughoutFails ==
  \A c \in Callers :
    /\ probes[c] <= RetryCount
    /\ (probes_held[c] = RetryCount /\ pc[c] # "probe_test") =>
         /\ pc[c] = "returned"
         /\ return_code[c] = "EUNEXPECTEDJSERROR"
         /\ result_[c] = DescEventExists
         /\ thread_handle[c] = "NULL"
         /\ worker[c] = NoWorker
         /\ sent[c] = << >>
    /\ (pc[c] = "returned" /\ result_[c] = DescEventExists) =>
         (probes[c] = RetryCount /\ probes_held[c] = RetryCount)

\* A second request gave up while the first still holds the event it created.
C3_Witness ==
  \E c, d \in Callers :
    /\ c # d
    /\ pc[c] = "returned" /\ probes_held[c] = RetryCount
    /\ InHandshake(d)

\* C4: a caller holds the event it created only from CreateEvent to the
\* CloseHandle that follows the wait; it holds no handle to the event once it
\* marshals, sends, polls or has returned.
C4_ReleasedAfterWait ==
  \A c \in Callers :
    /\ InHandshake(c) => pc[c] \in {"spawn", "wait", "close_event"}
    /\ pc[c] \in {"marshal_doc", "send_doc", "set_args", "poll", "finish",
                 "returned"} =>
         event_handle[c] = "NULL"
    /\ sent[c] # << >> => event_handle[c] = "NULL"

\* The wait has ended, by signal or by timeout, the event is released and
\* nothing has been handed off yet.
C4_Witness ==
  \E c \in Callers :
    /\ pc[c] = "marshal_doc"
    /\ event_wait_result[c] = "WAIT_TIMEOUT"
    /\ event_handle[c] = "NULL"
    /\ sent[c] = << >>

\* C5: once the readiness wait has ended with the worker not started or
\* not ready in time, no message is ever sent to the executor handle and the
\* call returns the thread-start failure.
C5_AbortOnStartFailure ==
  \A c \in Callers :
    ( /\ pc[c] \notin {"idle", "probe_test", "probe_sleep", "create_exists",
                       "spawn", "wait", "close_event", "crashed"}
      /\ entry[c] \in {"ExecuteAsync", "BeginAsyncExecution"}
      /\ \/ event_wait_result[c] = "WAIT_TIMEOUT"
         \/ (event_wait_result[c] # "none" /\ thread_handle[c] = "NULL") ) =>
      /\ sent[c] = << >>
      /\ pc[c] = "returned" =>
           (return_code[c] = "EUNEXPECTEDJSERROR" /\ result_[c] = DescThreadFailed)

\* C6: after a failed marshal of the document or of an argument the call
\* has returned the marshal failure, and no execute request was posted.
C6_MarshalFailureAborts ==
  \A c \in Callers :
    hr_failed[c] =>
      /\ pc[c] = "returned"
      /\ return_code[c] = "EUNEXPECTEDJSERROR"
      /\ result_[c] \in {DescDocMarshal, DescArgMarshal}
      /\ Count(c, "WD_ASYNC_SCRIPT_EXECUTE") = 0
      /\ (result_[c] = DescDocMarshal => sent[c] = << >>)

\* The second argument failed to marshal after the document and the first
\* argument had been handed over.
C6_Witness ==
  \E c \in Callers :
    /\ hr_failed[c] /\ entry[c] = "ExecuteAsync"
    /\ Len(sent[c]) = 2

\* C7: no detach and no result query before the poll loop has ended; a
\* call that ended it without seeing the flag sent exactly one detach, no
\* result query, and returned Success; one that saw the flag sent no detach
\* and exactly one result query.
C7_DetachXorResult ==
  \A c \in Callers :
    LET detaches == Count(c, "WD_ASYNC_SCRIPT_DETACH_LISTENTER")
        queries == Count(c, "WD_ASYNC_SCRIPT_GET_RESULT")
    IN /\ TimedOut(c) =>
            detaches = 1 /\ queries = 0 /\ return_code[c] = "WD_SUCCESS"
       /\ SawFlag(c) => detaches = 0 /\ queries = 1
       /\ ~(TimedOut(c) \/ SawFlag(c)) => detaches = 0 /\ queries = 0

\* The worker was running the script and never completed: it was detached.
C7_Witness ==
  \E c \in Callers :
    /\ TimedOut(c)
    /\ worker[c].posted /\ worker[c].detached /\ ~worker[c].is_complete

\* C8: the polls of one call never exceed max(1, floor(timeout/10)) and
\* the probes never exceed RetryCount; and every call that was entered
\* returns, whatever the worker and the other instances do.
PollLimit(t) == IF t \div 10 > 1 THEN t \div 10 ELSE 1

Outcome(c) == << return_code[c], result_[c] >>
CompletedSuccess(c) == Completed(c) /\ worker[c].status = "WD_SUCCESS"

C9_TimeoutOutcomeDistinct ==
  \A c, d \in Callers :
    (TimedOut(c) /\ CompletedSuccess(d)) =>
      (return_code[c] # "EUNEXPECTEDJSERROR" /\ Outcome(c) # Outcome(d))

\* C9 as amended: a timed-out call returns Success and leaves result_ as
\* it was, which is exactly what a call whose worker completed with Success
\* returns.
C9_TimeoutReturnsSuccess ==
  \A c, d \in Callers :
    TimedOut(c) =>
      /\ return_code[c] = "WD_SUCCESS"
      /\ result_[c] = result_before[c]
      /\ CompletedSuccess(d) => Outcome(c) = Outcome(d)

C9_Witness ==
  \E c, d \in Callers : c # d /\ TimedOut(c) /\ CompletedSuccess(d)

\* C10: a call that saw the completion flag returns the status the worker
\* reports, and result_ is what it was when the call was made.
C10_ReturnsWorkerStatus ==
  \A c \in Callers :
    Completed(c) =>
      /\ return_code[c] = worker[c].status
      /\ result_[c] = result_before[c]

\* The worker failed, and the object held a result from an earlier Execute.
C10_Witness ==
  \E c \in Callers :
    /\ Completed(c)
    /\ worker[c].status = "EUNEXPECTEDJSERROR"
    /\ result_before[c] = Variant("VT_I4", "2")

\* C11: no call of AddArgument ever stores outside the argument vector or
\* brings the process down: a call past the declared count is refused.
C11_ExtraAddRefused ==
  \A c \in Callers : ~heap_corrupt[c] /\ pc[c] # "crashed"

\* C12: the argument vector is never longer than the declared count, and
\* the fill position never passes it.
C12_WithinDeclaredCount ==
  \A c \in Callers :
    /\ Len(argument_array_[c]) <= argument_count_[c]
    /\ current_arg_index_[c] <= argument_count_[c]

\* The events AddArguments logs around each element of its array.
IngestReturned == pc[Main] = "returned" /\ entry[Main] = "AddArguments"
IsMark(e) == e.ev \in { "element", "status" }
Marks == SelectSeq(ingest_log, IsMark)
Started(j) == 2 * j + 1 <= Len(Marks)
Before(j) == Marks[2 * j + 1]
After(j) == Marks[2 * j + 2]

\* C13: the elements are ingested in index order; every element before
\* the last one ingested succeeded; the status returned is the status of the
\* last one ingested; after a failure at element k the fill position has
\* advanced by k and nothing at all was done for the elements after k.
C13_StopsAtFirstFailure ==
  IngestReturned =>
    /\ Len(Marks) % 2 = 0 /\ Len(Marks) <= 2 * Len(ingest_input)
    /\ \A j \in 0..(Len(ingest_input) - 1) :
         Started(j) =>
           /\ Before(j).ev = "element" /\ Before(j).pos = j
           /\ After(j).ev = "status" /\ After(j).pos = j
           /\ Before(j).pos2 = args_before.idx + j
           /\ (2 * j + 2 < Len(Marks)) => After(j).st = "WD_SUCCESS"
    /\ return_code[Main] =
         (IF Marks = << >> THEN "WD_SUCCESS" ELSE Marks[Len(Marks)].st)
    /\ return_code[Main] = "WD_SUCCESS" => Len(Marks) = 2 * Len(ingest_input)
    /\ return_code[Main] # "WD_SUCCESS" =>
         /\ ingest_log[Len(ingest_log)].ev = "status"
         /\ current_arg_index_[Main] =
              args_before.idx + ((Len(Marks) \div 2) - 1)

\* The second of three elements failed: the first was added, the third was
\* not looked at.
C13_Witness ==
  /\ IngestReturned
  /\ Len(ingest_input) = 3
  /\ Len(Marks) = 4
  /\ return_code[Main] = "EOBSOLETEELEMENT"
  /\ current_arg_index_[Main] = 1
  /\ argument_array_[Main][1] = Variant("VT_I4", "7")
  /\ script_engine_host_[Main] = "doc"
  /\ ~dom["e1"].attached

\* Element j of the array is an element reference, ingested with room left
\* in the vector.
IsReference(value) == value.type = "object" /\ IsMember(value, ElementMarker)
ReferenceAt(j) ==
  /\ Started(j)
  /\ IsReference(ingest_input[j + 1])
  /\ Before(j).pos2 < Len(Before(j).args)
ElementAt(j) == dom[MemberValue(ingest_input[j + 1], ElementMarker).val]
Untouched(j) ==
  After(j).args = Before(j).args /\ After(j).pos2 = Before(j).pos2
HandleAdded(j) ==
  /\ After(j).st = "WD_SUCCESS"
  /\ After(j).pos2 = Before(j).pos2 + 1
  /\ After(j).args =
       [Before(j).args EXCEPT ![Before(j).pos2 + 1] =
          Variant("VT_DISPATCH",
                  MemberValue(ingest_input[j + 1], ElementMarker).val)]
AllChecksPass(j) ==
  /\ ElementAt(j).managed
  /\ ElementAt(j).attached
  /\ ElementAt(j).document = script_engine_host_[Main]

\* C14 as claimed: whichever resolution step fails, the status is
\* EOBSOLETEELEMENT and nothing is added; when all pass the handle is added.
C14_AnyFailureObsolete ==
  IngestReturned =>
    \A j \in 0..(Len(ingest_input) - 1) :
      ReferenceAt(j) =>
        IF AllChecksPass(j) THEN HandleAdded(j)
        ELSE After(j).st = "EOBSOLETEELEMENT" /\ Untouched(j)

\* C14 as amended: when the repository refuses the identifier the status
\* is the repository's own answer; when the element is detached or belongs to
\* another document it is EOBSOLETEELEMENT; in both cases nothing is added;
\* when all three checks pass the handle is added.
C14_ResolutionOutcome ==
  IngestReturned =>
    \A j \in 0..(Len(ingest_input) - 1) :
      ReferenceAt(j) =>
        IF AllChecksPass(j) THEN HandleAdded(j)
        ELSE IF ~ElementAt(j).managed
          THEN /\ Untouched(j)
               /\ After(j).st # "WD_SUCCESS"
               /\ \E q \in DOMAIN ingest_log :
                    /\ ingest_log[q].ev = "lookup" /\ ingest_log[q].id = 0
                    /\ ingest_log[q].pos = Before(j).pos2
                    /\ ingest_log[q].reply = After(j).st
        ELSE After(j).st = "EOBSOLETEELEMENT" /\ Untouched(j)

\* The repository no longer knows the element and says so with its own
\* status, which is what the caller gets.
C14_Witness ==
  /\ IngestReturned
  /\ script_engine_host_[Main] = "doc"
  /\ \E j \in 0..(Len(ingest_input) - 1) :
       /\ ReferenceAt(j)
       /\ ~ElementAt(j).managed
       /\ After(j).st = "ENOSUCHELEMENT"
       /\ return_code[Main] = "ENOSUCHELEMENT"

\* C15: a reference whose element is in the repository but no longer
\* attached is refused with EOBSOLETEELEMENT; and an element of the array
\* whose ingestion reports EOBSOLETEELEMENT, directly or from inside a nested
\* array or object, leaves the vector and the fill position as they were
\* before it, which is how AddArguments leaves them.
C15_DetachedLeavesListUnchanged ==
  IngestReturned =>
    \A j \in 0..(Len(ingest_input) - 1) :
      /\ (ReferenceAt(j) /\ ElementAt(j).managed /\ ~ElementAt(j).attached) =>
           After(j).st = "EOBSOLETEELEMENT"
      /\ (Started(j) /\ After(j).st = "EOBSOLETEELEMENT") =>
           /\ Untouched(j)
           /\ argument_array_[Main] = Before(j).args
           /\ current_arg_index_[Main] = Before(j).pos2

\* The element was attached when the script was constructed and was
\* detached before the array holding its reference was ingested.
C15_Witness ==
  /\ IngestReturned
  /\ script_engine_host_[Main] = "doc"
  /\ dom["e1"] = ElementState(TRUE, FALSE, "doc")
  /\ Len(ingest_input) = 1 /\ ingest_input[1].type = "array"
  /\ return_code[Main] = "EOBSOLETEELEMENT"
  /\ \E q \in DOMAIN ingest_log :
       ingest_log[q].ev = "lookup" /\ ingest_log[q].id = 2

\* The record of one synthetic invocation: the stores into it, in order, and
\* the places of the record where it was executed.
AddsInto(n) == SelectSeq(ingest_log, LAMBDA e : e.ev = "add" /\ e.id = n)
ExecutionsOf(n) ==
  { x \in DOMAIN ingest_log :
      ingest_log[x].ev = "execute" /\ ingest_log[x].id = n }
AddsAfter(q, p) ==
  { a \in DOMAIN ingest_log :
      a > q /\ ingest_log[a].ev = "add" /\ ingest_log[a].id = p }

\* The native value a JSON value stands for.
RECURSIVE Expected(_)
Expected(value) ==
  IF value.type \in ScalarTypes THEN ScalarVariant(value)
  ELSE IF value.type = "array"
    THEN ArrayVariant([ i \in DOMAIN value.items |-> Expected(value.items[i]) ])
  ELSE IF IsMember(value, ElementMarker)
    THEN Variant("VT_DISPATCH", MemberValue(value, ElementMarker).val)
  ELSE ObjectVariant([ i \in DOMAIN value.members |->
                         Field(value.members[i].name,
                               Expected(value.members[i].value)) ])

\* C16: for every JSON array of length N that is ingested, one synthetic
\* invocation with the text of an N-element array literal is built; the
\* stores into it go to positions 0, 1, ... in that order; it is executed at
\* most once, only after N stores, with exactly the stored values; when the
\* execution succeeds its result is the array of those values and the very
\* next step stores that result, once, into the enclosing invocation; when it
\* does not, nothing is stored into the enclosing invocation.  An array at
\* the top level that was ingested with success leaves the native array of
\* its elements, in order, at the fill position.
C16_ArrayThroughOneNestedInvocation ==
  IngestReturned =>
    /\ \A q \in DOMAIN ingest_log :
         (ingest_log[q].ev = "new" /\ ingest_log[q].st = "array") =>
           LET n == ingest_log[q].id
               p == ingest_log[q].parent
               N == ingest_log[q].pos
               adds == AddsInto(n)
           IN /\ ingest_log[q].src = ArrayScript(N)
              /\ Len(adds) <= N
              /\ \A i \in DOMAIN adds : adds[i].pos = i - 1
              /\ Cardinality(ExecutionsOf(n)) <= 1
              /\ \A x \in ExecutionsOf(n) :
                   /\ Len(adds) = N
                   /\ AddsAfter(x, n) = { }
                   /\ AddsAfter(q, n) \subseteq (q + 1)..(x - 1)
                   /\ ingest_log[x].args = [ i \in 1..N |-> adds[i].res ]
                   /\ IF ingest_log[x].st = "WD_SUCCESS"
                        THEN /\ ingest_log[x].res =
                                  ArrayVariant(ingest_log[x].args)
                             /\ AddsAfter(q, p) \cap (q..(x + 1)) = { x + 1 }
                             /\ ingest_log[x + 1].res = ingest_log[x].res
                        ELSE AddsAfter(q, p) = { }
              /\ ExecutionsOf(n) = { } =>
                   return_code[Main] # "WD_SUCCESS" /\ AddsAfter(q, p) = { }
    /\ \A j \in 0..(Len(ingest_input) - 1) :
         ( /\ Started(j)
           /\ ingest_input[j + 1].type = "array"
           /\ After(j).st = "WD_SUCCESS"
           /\ Before(j).pos2 < Len(Before(j).args) ) =>
             /\ After(j).pos2 = Before(j).pos2 + 1
             /\ After(j).args =
                  [Before(j).args EXCEPT ![Before(j).pos2 + 1] =
                     Expected(ingest_input[j + 1])]

\* An array holding an array with an element reference, and a number,
\* ingested with success.
C16_Witness ==
  /\ IngestReturned
  /\ return_code[Main] = "WD_SUCCESS"
  /\ Len(ingest_input) = 1
  /\ Len(argument_array_[Main]) = 1
  /\ argument_array_[Main][1] =
       ArrayVariant(<< ArrayVariant(<< Variant("VT_DISPATCH", "e1") >>),
                       Variant("VT_I4", "7") >>)
  /\ Cardinality({ x \in DOMAIN ingest_log : ingest_log[x].ev = "execute" }) = 2

\* The nesting depth of a JSON value: 0 for a scalar or an element
\* reference, one more than its deepest element for an array or an object.
RECURSIVE Depth(_)
RECURSIVE DeepestOf(_, _)
DeepestOf(values, i) ==
  IF i > Len(values) THEN 0
  ELSE LET d == Depth(values[i])
           rest == DeepestOf(values, i + 1)
       IN IF d > rest THEN d ELSE rest
Depth(value) ==
  IF value.type = "array" THEN 1 + DeepestOf(value.items, 1)
  ELSE IF value.type = "object" /\ ~IsMember(value, ElementMarker)
    THEN 1 + DeepestOf([ i \in DOMAIN value.members |->
                           value.members[i].value ], 1)
  ELSE 0

NewEvents == SelectSeq(ingest_log, LAMBDA e : e.ev = "new")

\* C17 as claimed: a value nested to depth D is ingested with exactly D
\* synthetic invocations.
C17_DepthManyInvocations ==
  (IngestReturned /\ return_code[Main] = "WD_SUCCESS" /\ Len(ingest_input) = 1)
    => Len(NewEvents) = Depth(ingest_input[1])

\* C17 as amended: an ingestion that succeeds has built and executed one
\* synthetic invocation for every array and every marker-less object of the
\* value (as many as the depth only when no level holds two of them); an
\* invocation is executed only after every invocation built inside it was
\* executed with success; and the caller's own invocation has not run when
\* AddArguments returns.
C17_OnePerCompositeInnermostFirst ==
  IngestReturned =>
    /\ return_code[Main] = "WD_SUCCESS" =>
         /\ Len(NewEvents) = SumOver(ingest_input, 1)
         /\ \A i \in DOMAIN NewEvents :
              Cardinality(ExecutionsOf(NewEvents[i].id)) = 1
    /\ \A i \in DOMAIN NewEvents :
         \A x \in ExecutionsOf(NewEvents[i].parent) :
           \E y \in ExecutionsOf(NewEvents[i].id) :
             y < x /\ ingest_log[y].st = "WD_SUCCESS"
    /\ host_outcome[Main] = "none" /\ invoke_args[Main] = << >>

\* An array holding two empty arrays: depth 2, three synthetic invocations,
\* the two inner ones executed first.
C17_Witness ==
  /\ IngestReturned
  /\ return_code[Main] = "WD_SUCCESS"
  /\ Len(ingest_input) = 1
  /\ Depth(ingest_input[1]) = 2
  /\ Len(NewEvents) = 3
  /\ \A x \in ExecutionsOf(1) : ExecutionsOf(2) \cup ExecutionsOf(3) \subseteq 1..(x - 1)
  /\ ExecutionsOf(1) # { }

\* C18: for every marker-less JSON object that is ingested, the text of the
\* synthetic invocation is an object literal the host can read, with as many
\* fields as the object has members, the k-th field named as the k-th member
\* and bound to arguments[k]; and an object at the top level that was
\* ingested with success leaves at the fill position the native object
\* pairing every member's name with the native form of that member's value.
C18_MembersBoundToOwnValues ==
  IngestReturned =>
    /\ \A i \in DOMAIN NewEvents :
         NewEvents[i].st = "object" =>
           /\ NewEvents[i].pos = Len(NewEvents[i].names)
           /\ ParseScript(NewEvents[i].src).ok
           /\ ParseScript(NewEvents[i].src).fields =
                [ k \in DOMAIN NewEvents[i].names |->
                    [name |-> NewEvents[i].names[k], index |-> k - 1] ]
    /\ \A j \in 0..(Len(ingest_input) - 1) :
         ( /\ Started(j)
           /\ ingest_input[j + 1].type = "object"
           /\ ~IsReference(ingest_input[j + 1])
           /\ After(j).st = "WD_SUCCESS"
           /\ Before(j).pos2 < Len(Before(j).args) ) =>
             After(j).args =
               [Before(j).args EXCEPT ![Before(j).pos2 + 1] =
                  Expected(ingest_input[j + 1])]

\* Script::ResultIsEmpty.
ResultIsEmpty(c) == result_[c].vt = "VT_EMPTY"

ExecuteReturned(c) == pc[c] = "returned" /\ entry[c] = "Execute"

\* C19: when the compiled function is not invokable, Execute returns
\* WD_SUCCESS, nothing was invoked, and the result is empty afterwards,
\* whatever it was before the call.
C19_NonInvokableLeavesEmptyResult ==
  \A c \in Callers :
    (ExecuteReturned(c) /\ host_outcome[c] = "not_function") =>
      /\ return_code[c] = "WD_SUCCESS"
      /\ invoke_args[c] = << >>
      /\ ResultIsEmpty(c)

\* The outcomes of the host that are failures of function construction, of
\* the lookup of call, of the window, or of the invocation.
FailureOutcomes ==
  { "create_failed", "no_call_member", "no_window", "invoke_threw",
    "invoke_threw_nodesc", "invoke_failed" }

\* C20: Execute returns one of three statuses; ENOSUCHDOCUMENT exactly when
\* the host is missing, and then nothing was evaluated and the result is
\* untouched; otherwise EUNEXPECTEDJSERROR exactly when construction, the
\* lookup of call or of the window, or the invocation failed or threw, and
\* WD_SUCCESS exactly in the other cases; when the host threw, the result is
\* the string of the exception's description (the text EUNEXPECTEDJSERROR
\* when the exception carries none).
C20_FailuresAsStatusCodes ==
  \A c \in Callers :
    ExecuteReturned(c) =>
      /\ return_code[c] \in
           { "WD_SUCCESS", "ENOSUCHDOCUMENT", "EUNEXPECTEDJSERROR" }
      /\ return_code[c] = "ENOSUCHDOCUMENT" <=> script_engine_host_[c] = "NULL"
      /\ script_engine_host_[c] = "NULL" =>
           /\ host_outcome[c] = "none"
           /\ invoke_args[c] = << >>
           /\ result_[c] = result_before[c]
      /\ script_engine_host_[c] # "NULL" =>
           /\ return_code[c] = "EUNEXPECTEDJSERROR"
                <=> host_outcome[c] \in FailureOutcomes
           /\ return_code[c] = "WD_SUCCESS"
                <=> host_outcome[c] \in { "ok", "not_function" }
           /\ host_outcome[c] = "invoke_threw" =>
                result_[c] = Variant("VT_BSTR", "exception description")
           /\ host_outcome[c] = "invoke_threw_nodesc" =>
                result_[c] = Variant("VT_BSTR", "EUNEXPECTEDJSERROR")

\* The host threw while the function ran, after an earlier Execute had
\* left a number as the result.
C20_Witness ==
  /\ ExecuteReturned(Main)
  /\ host_outcome[Main] = "invoke_threw"
  /\ return_code[Main] = "EUNEXPECTEDJSERROR"
  /\ result_before[Main] = Variant("VT_I4", "2")
  /\ result_[Main] = Variant("VT_BSTR", "exception description")

\* The set-argument messages of the running call, in the order sent.
SetArgumentMessages(c) ==
  SelectSeq(sent[c], LAMBDA m : m.msg = "WD_ASYNC_SCRIPT_SET_ARGUMENT")

AsyncEntered(c) == entry[c] \in { "ExecuteAsync", "BeginAsyncExecution" }

\* The VARIANT types of integers, doubles, booleans and strings.
ScalarVts == { "VT_I4", "VT_I8", "VT_R4", "VT_R8", "VT_BOOL", "VT_BSTR" }

\* C21: in ExecuteAsync and in BeginAsyncExecution alike, the i-th
\* set-argument message names the type of the i-th argument; for an integer,
\* a double, a boolean or a string it carries the argument's value, and it
\* carries a transfer stream exactly for an object handle.
C21_ScalarsCopiedInBothEntries ==
  \A c \in Callers :
    AsyncEntered(c) =>
      \A i \in DOMAIN SetArgumentMessages(c) :
        LET m == SetArgumentMessages(c)[i]
            arg == argument_array_[c][i]
        IN /\ i <= Len(argument_array_[c])
           /\ m.wparam = arg.vt
           /\ arg.vt \in ScalarVts =>
                m.lparam = [kind |-> "value", val |-> arg.val]
           /\ m.lparam.kind = "stream" <=> arg.vt = "VT_DISPATCH"

\* C22: the function an Execute retrieves, and the function it invokes, is
\* the one compiled from its own Script's source text, however the steps of
\* another Execute on the same document fall between its own.
C22_InvokesOwnFunction ==
  \A c \in Callers :
    /\ temp_function[c] # NoFunction => temp_function[c] = SourceOf(c)
    /\ invoked_fn[c] # NoFunction => invoked_fn[c] = SourceOf(c)


\* A worker that has received the execute request and has not completed it.
DispatchedUncompleted(c) == worker[c].posted /\ ~worker[c].is_complete

\* C23: the bootstrap signal does not serialize dispatched workers: while a
\* worker is dispatched and has not completed, its invocation holds no
\* handle on the signal, so that nothing of that invocation keeps another
\* one from creating the signal, spawning its worker and dispatching.
C23_DispatchedHoldsNoSignal ==
  \A c \in Callers :
    DispatchedUncompleted(c) => (event_handle[c] = "NULL" /\ ~InHandshake(c))

\* Two invocations have each dispatched to a worker of their own, and
\* neither worker has completed.
C23_Witness ==
  \E c, d \in Callers :
    /\ c # d
    /\ DispatchedUncompleted(c) /\ DispatchedUncompleted(d)
    /\ executor_handle[c] = "hwnd" /\ executor_handle[d] = "hwnd"


\* BeginAsyncExecution has returned Success.
BeginReturnedSuccess(c) ==
  /\ entry[c] = "BeginAsyncExecution"
  /\ pc[c] = "returned"
  /\ return_code[c] = "WD_SUCCESS"

\* BeginAsyncExecution never polls the completion flag, never queries the
\* result and never sends a detach; it returns as soon as the execute
\* request is posted, and it returns Success only then, the request being
\* the last of its messages, after the signal was released and the document
\* handed over; a call that fails with no worker started leaves the
\* caller's handle unwritten.
BeginSkipsPolling(c) ==
  /\ Polls(c) = 0
  /\ Count(c, "WD_ASYNC_SCRIPT_GET_RESULT") = 0
  /\ Count(c, "WD_ASYNC_SCRIPT_DETACH_LISTENTER") = 0
  /\ Count(c, "WD_ASYNC_SCRIPT_EXECUTE") = 1 <=> BeginReturnedSuccess(c)
  /\ BeginReturnedSuccess(c) =>
       /\ sent[c][Len(sent[c])].msg = "WD_ASYNC_SCRIPT_EXECUTE"
       /\ sent[c][1].msg = "WD_ASYNC_SCRIPT_SET_DOCUMENT"
       /\ thread_handle[c] = "thread"
       /\ event_handle[c] = "NULL"
  /\ (pc[c] = "returned" /\ thread_handle[c] = "NULL") =>
       async_executor_handle[c] = "unwritten"

AfterDispatch ==
  { "WD_ASYNC_SCRIPT_IS_EXECUTION_COMPLETE", "WD_ASYNC_SCRIPT_GET_RESULT",
    "WD_ASYNC_SCRIPT_DETACH_LISTENTER" }

\* C25: at every moment of an ExecuteAsync / BeginAsyncExecution call the
\* messages sent so far are, in this order: one set-document, the
\* set-argument of argument 1, of argument 2, ... (each carrying its own
\* argument), one execute request, and only then polls, result query or
\* detach; a call past the argument loop has sent all of the first three.
C25_MessagesOrdered ==
  \A c \in Callers :
    AsyncEntered(c) =>
      LET n == Len(argument_array_[c]) IN
        /\ \A i \in DOMAIN sent[c] :
             LET m == sent[c][i] IN
               /\ i = 1 => m.msg = "WD_ASYNC_SCRIPT_SET_DOCUMENT"
               /\ (1 < i /\ i <= n + 1) =>
                    /\ m.msg = "WD_ASYNC_SCRIPT_SET_ARGUMENT"
                    /\ m.wparam = argument_array_[c][i - 1].vt
                    /\ m.lparam = ArgumentParam(entry[c], argument_array_[c][i - 1])
               /\ i = n + 2 => m.msg = "WD_ASYNC_SCRIPT_EXECUTE"
               /\ i > n + 2 => m.msg \in AfterDispatch
        /\ Count(c, "WD_ASYNC_SCRIPT_EXECUTE") = 1 =>
             (Len(sent[c]) >= n + 2 /\ Len(SetArgumentMessages(c)) = n)
        /\ pc[c] \in {"poll", "finish"} => Count(c, "WD_ASYNC_SCRIPT_EXECUTE") = 1

\* ExecuteAsync handed over two different arguments, dispatched and polled.
C25_Witness ==
  \E c \in Callers :
    /\ entry[c] = "ExecuteAsync"
    /\ Len(argument_array_[c]) = 2
    /\ argument_array_[c][1] # argument_array_[c][2]
    /\ Len(sent[c]) >= 5
    /\ sent[c][5].msg = "WD_ASYNC_SCRIPT_IS_EXECUTION_COMPLETE"


\* AddArguments returned a failure.
IngestFailed == IngestReturned /\ return_code[Main] # "WD_SUCCESS"

\* The synthetic invocations that were built and never executed, those whose
\* Execute failed, and the element lookups that ended in a failure.
Unexecuted ==
  { ingest_log[q].id : q \in { x \in DOMAIN ingest_log :
      ingest_log[x].ev = "new" /\ ExecutionsOf(ingest_log[x].id) = { } } }
FailedExecutions ==
  { x \in DOMAIN ingest_log :
      ingest_log[x].ev = "execute" /\ ingest_log[x].st # "WD_SUCCESS" }
LookupStatus(e) ==
  IF e.reply # "WD_SUCCESS" THEN e.reply
  ELSE IF IsElementValid(dom[e.st].attached, dom[e.st].document,
                         script_engine_host_[Main])
    THEN "WD_SUCCESS" ELSE "EOBSOLETEELEMENT"
FailedLookups ==
  { x \in DOMAIN ingest_log :
      ingest_log[x].ev = "lookup" /\ LookupStatus(ingest_log[x]) # "WD_SUCCESS" }

\* The invocation inside which invocation n was built (0: the enclosing
\* Script itself), and n with all the invocations around it.
ParentOf(n) ==
  ingest_log[CHOOSE q \in DOMAIN ingest_log :
               ingest_log[q].ev = "new" /\ ingest_log[q].id = n].parent
RECURSIVE Enclosing(_)
Enclosing(n) == IF n = 0 THEN { } ELSE {n} \cup Enclosing(ParentOf(n))

\* C26: an ingestion that returned Success had no failing lookup, no failed
\* nested Execute and executed every synthetic invocation it built.  One
\* that failed stopped at the failing step: that step, a lookup or a nested
\* Execute, is the last thing done at any depth; its status is what
\* AddArguments returns; the invocations around the failing element, and
\* they alone, were never executed; nothing was stored into the invocation
\* enclosing any of them after it was built; and after a failed nested
\* Execute nothing was stored into the enclosing invocation.
C26_FailureStopsAndPropagates ==
  IngestReturned =>
    /\ ~IngestFailed =>
         Unexecuted = { } /\ FailedExecutions = { } /\ FailedLookups = { }
    /\ IngestFailed =>
         LET last == Len(ingest_log)
             F == ingest_log[last - 1]
         IN /\ last >= 3
            /\ ingest_log[last].ev = "status"
            /\ ingest_log[last].st = return_code[Main]
            /\ F.ev \in { "lookup", "execute" }
            /\ FailedExecutions \cup FailedLookups = { last - 1 }
            /\ F.ev = "lookup" =>
                 /\ return_code[Main] = LookupStatus(F)
                 /\ Unexecuted = Enclosing(F.id)
            /\ F.ev = "execute" =>
                 /\ return_code[Main] = F.st
                 /\ Unexecuted = Enclosing(F.parent)
                 /\ AddsAfter(last - 1, F.parent) = { }
            /\ \A q \in DOMAIN ingest_log :
                 (ingest_log[q].ev = "new" /\ ingest_log[q].id \in Unexecuted) =>
                   AddsAfter(q, ingest_log[q].parent) = { }

\* The element two arrays deep was refused: both arrays were built, neither
\* was executed, and AddArguments returned the refusal.
C26_Witness ==
  /\ IngestFailed
  /\ Unexecuted = {1, 2}
  /\ ingest_log[Len(ingest_log) - 1].ev = "lookup"
  /\ ingest_log[Len(ingest_log) - 1].id = 2
  /\ return_code[Main] = "ENOSUCHELEMENT"


\* Line 283 (444): the argument count announced to the worker in the thread
\* context.
AnnouncedCount(c) == argument_count_[c]

\* C27: whatever AddArgument / AddArguments calls came before, a call of
\* ExecuteAsync or BeginAsyncExecution that has posted the execute request
\* has sent as many set-argument messages as the argument count it announced
\* to the worker.
C27_SetArgumentsMatchAnnounced ==
  \A c \in Callers :
    (AsyncEntered(c) /\ Count(c, "WD_ASYNC_SCRIPT_EXECUTE") = 1) =>
      Len(SetArgumentMessages(c)) = AnnouncedCount(c)


\* Execute of the handler's Script has been called in the running command.
HandlerExecuted == handler.executions # << >>

\* C28: ExecuteInternal sets nothing on its response while it runs and
\* exactly one response by the time it returns, for every command served;
\* Execute is called at most once, and only when the id parameter was
\* present and the browser lookup and the element lookup returned success,
\* on a Script declared for one argument that holds the element as its one
\* argument; after Execute the response is a success response exactly when
\* Execute returned Success, and otherwise an error response with the
\* status Execute returned; without Execute the response is an error.
C28_OneResponseExecuteGuarded ==
  /\ handler.pc # "done" => handler.responses = << >>
  /\ handler.pc = "done" => Len(handler.responses) = 1
  /\ \A i \in DOMAIN handler.served : Len(handler.served[i]) = 1
  /\ Len(handler.executions) <= 1
  /\ HandlerExecuted =>
       LET x == handler.executions[1] IN
         /\ handler.has_id
         /\ handler.browser_status = "WD_SUCCESS"
         /\ handler.element_status = "WD_SUCCESS"
         /\ handler.pc \in { "respond", "done" }
         /\ x.script.count = 1
         /\ x.script.args = << Variant("VT_DISPATCH", handler.element_id) >>
         /\ x.script.idx = 1
         /\ ~x.script.ub
         /\ x.script.host = handler.doc
         /\ handler.status_code = x.returned
  /\ (handler.pc = "done" /\ HandlerExecuted) =>
       LET response == handler.responses[1]
           returned == handler.executions[1].returned
       IN /\ response.kind = "success" <=> returned = "WD_SUCCESS"
          /\ response.kind = "error" <=> returned # "WD_SUCCESS"
          /\ response.kind = "error" =>
               /\ response.status = returned
               /\ response.value = "Unable to get element text"
  /\ (handler.pc = "done" /\ ~HandlerExecuted) =>
       /\ handler.responses[1].kind = "error"
       /\ ~handler.has_id => handler.responses[1].status = "400"
       /\ handler.has_id =>
            /\ handler.responses[1].status = handler.status_code
            /\ handler.status_code # "WD_SUCCESS"
            /\ { handler.browser_status, handler.element_status }
                 # { "WD_SUCCESS" }

\* After one command was answered with the text, the Execute of the next
\* one failed in the host and the command was answered with that status.
C28_Witness ==
  /\ handler.pc = "done"
  /\ HandlerExecuted
  /\ handler.executions[1].returned = "EUNEXPECTEDJSERROR"
  /\ handler.responses =
       << ErrorResponse("EUNEXPECTEDJSERROR", "Unable to get element text") >>
  /\ Len(handler.served) = 1
  /\ handler.served[1][1].kind = "success"

=============================================================================
